---- MODULE Spec2Model ----
(***************************************************************************)
(* A model of the ai-gateway: the middleware pipeline of main.rs (Auth,    *)
(* RateLimit, Tracking around the route handlers), the token-bucket rate   *)
(* limiter, the usage tracker, the fallback provider, the streaming        *)
(* translator of the Ollama provider, the chat handler and the stats       *)
(* endpoint.                                                               *)
(*                                                                         *)
(* Time is a discrete monotonic clock `now`, counted in ticks of           *)
(* 60/TicksPerMinute seconds.  Token counts are f64 in the code; here they *)
(* are exact rationals held as integers in units of 1/TicksPerMinute of a  *)
(* token, so that one tick refills exactly requests_per_minute units:      *)
(*   capacity    = R tokens        = R * TicksPerMinute units              *)
(*   refill_rate = R/60 tokens/sec = R units per tick                      *)
(*   one token                     = TicksPerMinute units                  *)
(* Floating-point rounding is not modelled.                                *)
(***************************************************************************)
EXTENDS Integers, Sequences, FiniteSets, TLC

\* ------------------------------------------------------------ bounds
TicksPerMinute == 2    \* clock resolution: a tick is 60/TicksPerMinute s
MaxTime == 3           \* the clock stops advancing at this tick
MaxRPM == 2            \* RateLimiter::new(R) is explored for R in 1..MaxRPM
MaxReqs == 2           \* HTTP requests accepted by the server in one run
MaxCalls == 4          \* direct check_key calls in one run of SpecLimiter
MaxFbCalls == 2        \* chat / chat_stream calls made on the FallbackProvider
MaxReads == 3          \* network reads an upstream body is delivered in
MaxRecords == 2        \* tracker updates made before get_stats is called in SpecStats
UnitsPerMs == 2        \* SystemTime resolution: a unit is 1/UnitsPerMs ms
MaxSub == 2            \* SystemTime units the clock advances by in SpecTracker
U32Bits == 5           \* bits a u32 is kept to
MaxLockCalls == 3      \* check_key calls made in SpecLocks
MaxOps == 2            \* tracker calls (a compared pair as one) made in SpecTracker
MaxSharedCalls == 3    \* calls made on the shared tracker in SpecShared

Slots == {1}           \* connections: Spec serves its requests one after another
Threads == {1, 2}      \* worker threads calling check_key concurrently

\* ------------------------------------------------------------ options
None == [some |-> FALSE]
Some(v) == [some |-> TRUE, val |-> v]

Min(a, b) == IF a <= b THEN a ELSE b

\* Vec::contains
Contains(vec, x) == \E i \in 1..Len(vec) : vec[i] = x

\* ------------------------------------------------------------ configuration
\* GATEWAY_API_KEYS=k1,a1 and ADMIN_API_KEYS=a1 after main's split/trim/filter:
\* k1 is a user key, a1 is in both lists.
api_keys == <<"k1", "a1">>
admin_keys == <<"a1">>

\* ------------------------------------------------------------ auth.rs
\* An Authorization header: absent, a visible-ASCII value, or bytes for which
\* HeaderValue::to_str fails.
NoHeader == [kind |-> "none", text |-> ""]
OpaqueHeader == [kind |-> "opaque", text |-> ""]
TextHeader(s) == [kind |-> "text", text |-> s]

\* headers().get("Authorization").and_then(|h| h.to_str().ok())
HeaderToStr(h) == IF h.kind = "text" THEN Some(h.text) ELSE None

\* str::strip_prefix
StripPrefix(s, prefix) ==
    IF Len(s) >= Len(prefix) /\ SubSeq(s, 1, Len(prefix)) = prefix
    THEN Some(SubSeq(s, Len(prefix) + 1, Len(s)))
    ELSE None

\* let token = auth_header.and_then(to_str).and_then(strip_prefix("Bearer "))
ExtractToken(h) ==
    LET s == HeaderToStr(h)
    IN  IF s.some THEN StripPrefix(s.val, "Bearer ") ELSE None

\* Mutant of the role lookup: the user list is consulted first.
RoleOfUserFirst(token) ==
    IF ~token.some THEN None
    ELSE IF Contains(api_keys, token.val) THEN Some("User")
    ELSE IF Contains(admin_keys, token.val) THEN Some("Admin")
    ELSE None

\* let role = token.as_ref().and_then(|t| admin? Admin : user? User : None)
RoleOf(token) ==
    IF ~token.some THEN None
    ELSE IF Contains(admin_keys, token.val) THEN Some("Admin")
    ELSE IF Contains(api_keys, token.val) THEN Some("User")
    ELSE None

\* ValidatedApiKey { key, role }
ValidatedApiKey(key, role) == [key |-> key, role |-> role]

\* ------------------------------------------------------------ rate_limit.rs
OneToken == TicksPerMinute

\* RateLimiter::new(requests_per_minute): default_capacity, default_refill_rate
RateLimiterNew(R) ==
    [default_capacity |-> R * TicksPerMinute, default_refill_rate |-> R]

\* Bucket::new(capacity, refill_rate) at Instant::now() = t
BucketNew(capacity, refill_rate, t) ==
    [tokens |-> capacity, last_updated |-> t,
     capacity |-> capacity, refill_rate |-> refill_rate]

\* now.duration_since(last_updated): saturates at zero
DurationSince(t, earlier) == IF t >= earlier THEN t - earlier ELSE 0

\* Mutant of the refill: the .min(capacity) cap is missing.
RefillNoCap(b, t) ==
    b.tokens + DurationSince(t, b.last_updated) * b.refill_rate

\* (self.tokens + elapsed * self.refill_rate).min(self.capacity)
Refill(b, t) ==
    Min(b.tokens + DurationSince(t, b.last_updated) * b.refill_rate, b.capacity)

\* Mutant of try_consume: a denied attempt does not store the refilled tokens
\* although it moves last_updated, so the time before a denial is lost.
TryConsumeDropsRefill(b, t) ==
    LET refilled == Refill(b, t)
    IN  IF refilled >= OneToken
        THEN [bucket |-> [b EXCEPT !.tokens = refilled - OneToken,
                                   !.last_updated = t],
              ok |-> TRUE]
        ELSE [bucket |-> [b EXCEPT !.last_updated = t], ok |-> FALSE]

\* Mutant of try_consume: the token is taken without the tokens >= 1 test.
TryConsumeNoGuard(b, t) ==
    LET refilled == Refill(b, t)
    IN  [bucket |-> [b EXCEPT !.tokens = refilled - OneToken,
                              !.last_updated = t],
         ok |-> TRUE]

\* Mutant of try_consume: a bucket holding exactly one token is denied.
TryConsumeAboveOne(b, t) ==
    LET refilled == Refill(b, t)
    IN  IF refilled > OneToken
        THEN [bucket |-> [b EXCEPT !.tokens = refilled - OneToken,
                                   !.last_updated = t],
              ok |-> TRUE]
        ELSE [bucket |-> [b EXCEPT !.tokens = refilled,
                                   !.last_updated = t],
              ok |-> FALSE]

\* Bucket::try_consume at Instant::now() = t: the bucket after, and the answer
TryConsume(b, t) ==
    LET refilled == Refill(b, t)
    IN  IF refilled >= OneToken
        THEN [bucket |-> [b EXCEPT !.tokens = refilled - OneToken,
                                   !.last_updated = t],
              ok |-> TRUE]
        ELSE [bucket |-> [b EXCEPT !.tokens = refilled,
                                   !.last_updated = t],
              ok |-> FALSE]

\* Mutant of the slow path: map.insert(key, ..) puts a new bucket in without
\* looking whether the key has one.
EntryInsert(map, key, lim, t) ==
    [k \in DOMAIN map \cup {key} |->
        IF k = key
        THEN BucketNew(lim.default_capacity, lim.default_refill_rate, t)
        ELSE map[k]]

\* map.entry(key).or_insert_with(|| Mutex::new(Bucket::new(..)))
EntryOrInsert(map, key, lim, t) ==
    IF key \in DOMAIN map THEN map
    ELSE [k \in DOMAIN map \cup {key} |->
            IF k = key
            THEN BucketNew(lim.default_capacity, lim.default_refill_rate, t)
            ELSE map[k]]

\* self.buckets.read(): granted while no thread holds the write lock; which
\* of a reader and a waiting writer goes first is the platform's policy, and
\* under "writers first" a reader also waits while a writer is waiting
Policies == {"any", "writers first"}

CanRead(readers, writer, waiting, policy) ==
    writer = 0 /\ (policy = "writers first" => waiting = {})

\* Mutant of RwLock::write: granted although readers hold the lock.
CanWriteAmongReaders(readers, writer) == writer = 0

\* self.buckets.write(): granted while no thread holds the lock either way
CanWrite(readers, writer) == writer = 0 /\ readers = {}

\* The fast path's block ends on a miss: `map`, the read guard, is dropped
DropReadKeeps(readers, th) == readers

DropRead(readers, th) == readers \ {th}

\* check_key's fast path under the read lock: the bucket's try_consume if
\* the key has a bucket, None on a miss
FastPath(map, key, t) ==
    IF key \in DOMAIN map THEN Some(TryConsume(map[key], t)) ELSE None

\* check_key's slow path under the write lock: the map after
\* entry().or_insert_with, and the bucket's try_consume
SlowPath(map, key, lim, t) ==
    LET m == EntryOrInsert(map, key, lim, t)
    IN  [map |-> m, r |-> TryConsume(m[key], t)]

\* ------------------------------------------------------------ tracking/mod.rs
\* A SystemTime is counted in units since UNIX_EPOCH.  SystemTime::now() when
\* the clock shows tick and sub units of the running millisecond have passed.
MsPerTick == 60000 \div TicksPerMinute
SystemTimeNow(tick, sub) == (tick * MsPerTick) * UnitsPerMs + sub

\* time.duration_since(UNIX_EPOCH).unwrap_or_default().as_millis() as u64
AsMillis(time) == IF time < 0 THEN 0 ELSE time \div UnitsPerMs

\* system_time_as_millis::serialize: the u64 written for a SystemTime
serialize(time) == AsMillis(time)

\* system_time_as_millis::deserialize: UNIX_EPOCH + Duration::from_millis
deserialize(millis) == millis * UnitsPerMs

\* KeyStats::new() at SystemTime::now() = t
KeyStatsNew(t) ==
    [request_count |-> 0, error_count |-> 0, total_latency_ms |-> 0,
     total_prompt_tokens |-> 0, total_completion_tokens |-> 0,
     models_used |-> << >>, last_request_timestamp |-> t]

\* self.stats.entry(key).or_insert_with(KeyStats::new)
StatsEntry(st, key, t) ==
    IF key \in DOMAIN st THEN st
    ELSE [k \in DOMAIN st \cup {key} |->
            IF k = key THEN KeyStatsNew(t) ELSE st[k]]

\* Mutant of record_request: the entry is inserted anew, which drops what
\* record_tokens had counted.
RecordRequestInserts(st, key, latency_ms, is_error, t) ==
    LET s == [k \in DOMAIN st \cup {key} |->
                IF k = key THEN KeyStatsNew(t) ELSE st[k]]
    IN  [s EXCEPT ![key] =
            [@ EXCEPT !.request_count =
                          (IF key \in DOMAIN st THEN st[key].request_count ELSE 0) + 1,
                      !.total_latency_ms = @ + latency_ms,
                      !.last_request_timestamp = t,
                      !.error_count = IF is_error THEN @ + 1 ELSE @]]

\* RequestTracker::record_request at SystemTime::now() = t
RecordRequest(st, key, latency_ms, is_error, t) ==
    LET s == StatsEntry(st, key, t)
    IN  [s EXCEPT ![key] =
            [@ EXCEPT !.request_count = @ + 1,
                      !.total_latency_ms = @ + latency_ms,
                      !.last_request_timestamp = t,
                      !.error_count = IF is_error THEN @ + 1 ELSE @]]

\* *stats.models_used.entry(model).or_insert(0) += 1
ModelsUsedIncr(models_used, model) ==
    [k \in DOMAIN models_used \cup {model} |->
        IF k = model
        THEN (IF model \in DOMAIN models_used THEN models_used[model] ELSE 0) + 1
        ELSE models_used[k]]

\* Mutant of record_tokens: it also sets last_request_timestamp.
RecordTokensStamps(st, key, prompt_tokens, completion_tokens, model, t) ==
    LET s == StatsEntry(st, key, t)
    IN  [s EXCEPT ![key] =
            [@ EXCEPT !.total_prompt_tokens = @ + prompt_tokens,
                      !.total_completion_tokens = @ + completion_tokens,
                      !.last_request_timestamp = t,
                      !.models_used = ModelsUsedIncr(@, model)]]

\* RequestTracker::record_tokens at SystemTime::now() = t
RecordTokens(st, key, prompt_tokens, completion_tokens, model, t) ==
    LET s == StatsEntry(st, key, t)
    IN  [s EXCEPT ![key] =
            [@ EXCEPT !.total_prompt_tokens = @ + prompt_tokens,
                      !.total_completion_tokens = @ + completion_tokens,
                      !.models_used = ModelsUsedIncr(@, model)]]

\* start.elapsed().as_millis()
ElapsedMs(start, t) == DurationSince(t, start) * MsPerTick

\* stats.json: absent (None), or present with a content that serde_json
\* parses as a RequestTracker or not.  In the JSON document every
\* last_request_timestamp is the u64 written by system_time_as_millis.
FileOf(json) == Some([parses |-> TRUE, json |-> json])
GarbageFile == Some([parses |-> FALSE, json |-> << >>])

\* RequestTracker::save_to_file when File::create and the write succeed
SaveToFile(st) ==
    FileOf([k \in DOMAIN st |->
              [st[k] EXCEPT !.last_request_timestamp = serialize(@)]])

\* RequestTracker::load_from_file: Err when File::open or from_reader fails
LoadFromFileSecs(file) ==
    IF file.some /\ file.val.parses
    THEN Some([k \in DOMAIN file.val.json |->
                 [file.val.json[k] EXCEPT
                     !.last_request_timestamp = deserialize(@ * 1000)]])
    ELSE None

LoadFromFile(file) ==
    IF file.some /\ file.val.parses
    THEN Some([k \in DOMAIN file.val.json |->
                 [file.val.json[k] EXCEPT
                     !.last_request_timestamp = deserialize(@)]])
    ELSE None

\* main: match RequestTracker::load_from_file("stats.json")
\*   { Ok(tracker) => tracker, Err(_) => RequestTracker::new() }
StartTrackerAlwaysNew(file) == << >>

StartTracker(file) ==
    LET loaded == LoadFromFile(file)
    IN  IF loaded.some THEN loaded.val ELSE << >>

\* ------------------------------------------------------------ middleware/tracking.rs
\* response.status().is_server_error()
IsServerErrorFrom400(status) == status >= 400 /\ status < 600

IsServerError(status) == status >= 500 /\ status < 600


\* ------------------------------------------------------------ handlers
\* An HTTP answer: Ok(ServiceResponse) from a handler, or Err(actix Error)
\* from a middleware, which actix renders with the error's status and text.
Response(kind, status, text, json) ==
    [kind |-> kind, status |-> status, text |-> text, json |-> json]

\* main.rs: async fn health() -> HttpResponse::Ok().body("ok")
Health == Response("ok", 200, "ok", << >>)

\* Mutant of mask_key: a key of exactly 8 characters is treated as a long one.
MaskKeyBelow8(key) ==
    IF Len(key) < 8 THEN "***"
    ELSE SubSeq(key, 1, 4) \o "***" \o SubSeq(key, Len(key) - 3, Len(key))

\* handlers/stats.rs mask_key
MaskKey(key) ==
    IF Len(key) <= 8 THEN "***"
    ELSE SubSeq(key, 1, 4) \o "***" \o SubSeq(key, Len(key) - 3, Len(key))

\* handlers/stats.rs build_stats_response; avg_latency_ms is the exact
\* quotient num/den
BuildStatsResponse(key, st) ==
    [api_key |-> MaskKey(key),
     request_count |-> st.request_count,
     error_count |-> st.error_count,
     total_latency_ms |-> st.total_latency_ms,
     avg_latency_ms |-> IF st.request_count > 0
                        THEN [num |-> st.total_latency_ms,
                              den |-> st.request_count]
                        ELSE [num |-> 0, den |-> 1],
     total_prompt_tokens |-> st.total_prompt_tokens,
     total_completion_tokens |-> st.total_completion_tokens,
     last_request_timestamp |-> AsMillis(st.last_request_timestamp),
     models_used |-> st.models_used]

\* The all-zero KeyStatsResponse a user without an entry is answered with
EmptyStatsResponse(key) ==
    [api_key |-> MaskKey(key), request_count |-> 0, error_count |-> 0,
     total_latency_ms |-> 0, avg_latency_ms |-> [num |-> 0, den |-> 1],
     total_prompt_tokens |-> 0, total_completion_tokens |-> 0,
     last_request_timestamp |-> 0, models_used |-> << >>]

\* get_all_stats().iter(): the entries in some order of the HashMap
RECURSIVE IterKeys(_)
IterKeys(S) ==
    IF S = {} THEN << >>
    ELSE LET k == CHOOSE x \in S : TRUE
         IN  <<k>> \o IterKeys(S \ {k})

\* Mutant of get_stats: a user's ?key= parameter is honoured as an admin's is.
GetStatsUserHonoursKey(ext, query, st) ==
    IF ~ext.some
    THEN Response("ok", 401, "Missing API key context", << >>)
    ELSE IF ext.val.role = "Admin" \/ query.some
    THEN IF query.some
         THEN IF query.val \in DOMAIN st
              THEN Response("ok", 200, "",
                            <<BuildStatsResponse(query.val, st[query.val])>>)
              ELSE Response("ok", 404, "No stats for that key", << >>)
         ELSE LET ks == IterKeys(DOMAIN st)
              IN  Response("ok", 200, "",
                      [i \in 1..Len(ks) |-> BuildStatsResponse(ks[i], st[ks[i]])])
    ELSE IF ext.val.key \in DOMAIN st
         THEN Response("ok", 200, "",
                       <<BuildStatsResponse(ext.val.key, st[ext.val.key])>>)
         ELSE Response("ok", 200, "", <<EmptyStatsResponse(ext.val.key)>>)

\* Mutant of get_stats: an admin asking for a key without an entry gets the
\* all-zero answer a user gets.
GetStatsAdminNo404(ext, query, st) ==
    IF ~ext.some
    THEN Response("ok", 401, "Missing API key context", << >>)
    ELSE IF ext.val.role = "Admin"
    THEN IF query.some
         THEN IF query.val \in DOMAIN st
              THEN Response("ok", 200, "",
                            <<BuildStatsResponse(query.val, st[query.val])>>)
              ELSE Response("ok", 200, "", <<EmptyStatsResponse(query.val)>>)
         ELSE LET ks == IterKeys(DOMAIN st)
              IN  Response("ok", 200, "",
                      [i \in 1..Len(ks) |-> BuildStatsResponse(ks[i], st[ks[i]])])
    ELSE IF ext.val.key \in DOMAIN st
         THEN Response("ok", 200, "",
                       <<BuildStatsResponse(ext.val.key, st[ext.val.key])>>)
         ELSE Response("ok", 200, "", <<EmptyStatsResponse(ext.val.key)>>)

\* handlers/stats.rs get_stats
GetStats(ext, query, st) ==
    IF ~ext.some
    THEN Response("ok", 401, "Missing API key context", << >>)
    ELSE IF ext.val.role = "Admin"
    THEN IF query.some
         THEN IF query.val \in DOMAIN st
              THEN Response("ok", 200, "",
                            <<BuildStatsResponse(query.val, st[query.val])>>)
              ELSE Response("ok", 404, "No stats for that key", << >>)
         ELSE LET ks == IterKeys(DOMAIN st)
              IN  Response("ok", 200, "",
                      [i \in 1..Len(ks) |-> BuildStatsResponse(ks[i], st[ks[i]])])
    ELSE IF ext.val.key \in DOMAIN st
         THEN Response("ok", 200, "",
                       <<BuildStatsResponse(ext.val.key, st[ext.val.key])>>)
         ELSE Response("ok", 200, "", <<EmptyStatsResponse(ext.val.key)>>)

\* ------------------------------------------------------------ providers
\* Result<_, ProviderError> of a backend call: Ok with the response (or the
\* stream) named by text, or one of the three ProviderError variants.
Ok(text) == [ok |-> TRUE, kind |-> "Ok", status |-> 0, text |-> text]
Err(kind, status, text) ==
    [ok |-> FALSE, kind |-> kind, status |-> status, text |-> text]

\* ChatCompletionRequest { model, messages, stream }
ChatCompletionRequest(model, messages, stream) ==
    [model |-> model, messages |-> messages, stream |-> stream]

NoRequest == ChatCompletionRequest("", << >>, None)

ProviderCall(to, op, request) == [to |-> to, op |-> op, request |-> request]

\* Mutant of the backup request: the configured fallback_model is not applied.
BackupRequestKeepsModel(request, fallback_model) == request

\* fallback.rs chat: let mut backup_req = req_clone; if let Some(model) =
\* &self.fallback_model { backup_req.model = model.clone() }
BackupRequest(request, fallback_model) ==
    IF fallback_model.some
    THEN [request EXCEPT !.model = fallback_model.val]
    ELSE request

\* Mutant of chat: only a Network error of the primary switches to the backup.
ChatAfterPrimaryNetworkOnly(f, outcome) ==
    IF outcome.ok \/ outcome.kind # "Network"
    THEN [f EXCEPT !.returns = Append(@, [from |-> "primary", outcome |-> outcome]),
                   !.result = Some(outcome), !.pc = "ready"]
    ELSE [f EXCEPT !.returns = Append(@, [from |-> "primary", outcome |-> outcome]),
                   !.calls = Append(@, ProviderCall("backup", "chat",
                                BackupRequest(f.request, f.fallback_model))),
                   !.pc = "backup_chat"]

\* FallbackProvider::chat once self.primary.chat(request).await has answered:
\* Ok is returned, any Err invokes self.backup.chat(backup_req)
ChatAfterPrimary(f, outcome) ==
    IF outcome.ok
    THEN [f EXCEPT !.returns = Append(@, [from |-> "primary", outcome |-> outcome]),
                   !.result = Some(outcome), !.pc = "ready"]
    ELSE [f EXCEPT !.returns = Append(@, [from |-> "primary", outcome |-> outcome]),
                   !.calls = Append(@, ProviderCall("backup", "chat",
                                BackupRequest(f.request, f.fallback_model))),
                   !.pc = "backup_chat"]

\* FallbackProvider::chat once self.backup.chat(backup_req).await has answered
ChatAfterBackup(f, outcome) ==
    [f EXCEPT !.returns = Append(@, [from |-> "backup", outcome |-> outcome]),
              !.result = Some(outcome), !.pc = "ready"]

\* Mutant of chat_stream: a primary that cannot establish the stream makes the
\* backup stream instead.
StreamAfterPrimaryFallsBack(f, outcome) ==
    IF outcome.ok
    THEN [f EXCEPT !.returns = Append(@, [from |-> "primary", outcome |-> outcome]),
                   !.result = Some(outcome), !.pc = "ready"]
    ELSE [f EXCEPT !.returns = Append(@, [from |-> "primary", outcome |-> outcome]),
                   !.calls = Append(@, ProviderCall("backup", "chat_stream", f.request)),
                   !.result = Some(Ok("backup-stream")), !.pc = "ready"]

\* FallbackProvider::chat_stream once self.primary.chat_stream(request).await
\* has answered
StreamAfterPrimary(f, outcome) ==
    [f EXCEPT !.returns = Append(@, [from |-> "primary", outcome |-> outcome]),
              !.result = Some(outcome), !.pc = "ready"]

\* ------------------------------------------------------------ providers/ollama.rs
\* The upstream answers chat_stream with newline-delimited JSON objects.  The
\* model abbreviates the JSON of one OllamaStreamChunk to
\*     { content }              "done": false
\*     { content ! counts }     "done": true, counts being "", "p<d>", "e<d>"
\*                              or "p<d>e<d>" for prompt_eval_count / eval_count
\* so that, as with a JSON object, no proper piece of a line is itself a line.
\* id, created and model are the same in every chunk of a stream and left out.
Letters == {"a", "b", "e", "h", "l", "o"}
DigitVal == [c \in {"0", "1", "2", "3", "4", "5"} |->
                CASE c = "0" -> 0 [] c = "1" -> 1 [] c = "2" -> 2
                  [] c = "3" -> 3 [] c = "4" -> 4 [] c = "5" -> 5]

CharAt(s, i) == SubSeq(s, i, i)

\* the position of the first c in s, 0 if there is none
IndexOf(s, c) ==
    LET P == {i \in 1..Len(s) : CharAt(s, i) = c}
    IN  IF P = {} THEN 0 ELSE CHOOSE i \in P : \A j \in P : i <= j

\* Option::unwrap_or
UnwrapOr(o, d) == IF o.some THEN o.val ELSE d

\* str::lines: split at "\n" or "\r\n"; the final line ending is optional
StripCR(line) ==
    IF Len(line) > 0 /\ CharAt(line, Len(line)) = "\r"
    THEN SubSeq(line, 1, Len(line) - 1)
    ELSE line

RECURSIVE StrLines(_)
StrLines(text) ==
    IF text = "" THEN << >>
    ELSE LET k == IndexOf(text, "\n")
         IN  IF k = 0 THEN <<text>>
             ELSE <<StripCR(SubSeq(text, 1, k - 1))>>
                    \o StrLines(SubSeq(text, k + 1, Len(text)))

\* line.trim().is_empty()
TrimIsEmpty(line) ==
    \A i \in 1..Len(line) : CharAt(line, i) \in {" ", "\t", "\r"}

\* The optional terminal counts of a done line
ParseCounts(s) ==
    LET IsDigit(i) == CharAt(s, i) \in DOMAIN DigitVal
        Val(i) == DigitVal[CharAt(s, i)]
    IN  IF s = ""
        THEN Some([prompt_eval_count |-> None, eval_count |-> None])
        ELSE IF Len(s) = 2 /\ CharAt(s, 1) = "p" /\ IsDigit(2)
        THEN Some([prompt_eval_count |-> Some(Val(2)), eval_count |-> None])
        ELSE IF Len(s) = 2 /\ CharAt(s, 1) = "e" /\ IsDigit(2)
        THEN Some([prompt_eval_count |-> None, eval_count |-> Some(Val(2))])
        ELSE IF Len(s) = 4 /\ CharAt(s, 1) = "p" /\ IsDigit(2)
                /\ CharAt(s, 3) = "e" /\ IsDigit(4)
        THEN Some([prompt_eval_count |-> Some(Val(2)),
                   eval_count |-> Some(Val(4))])
        ELSE None

\* serde_json::from_str::<OllamaStreamChunk>(line): Some(chunk) for Ok, None
\* for Err
OllamaStreamChunk(line) ==
    IF Len(line) < 2 \/ CharAt(line, 1) # "{" \/ CharAt(line, Len(line)) # "}"
    THEN None
    ELSE LET inner == SubSeq(line, 2, Len(line) - 1)
             k == IndexOf(inner, "!")
             content == IF k = 0 THEN inner ELSE SubSeq(inner, 1, k - 1)
             counts == IF k = 0 THEN ParseCounts("")
                       ELSE ParseCounts(SubSeq(inner, k + 1, Len(inner)))
         IN  IF (\E i \in 1..Len(content) : CharAt(content, i) \notin Letters)
                \/ ~counts.some
             THEN None
             ELSE Some([content |-> content, done |-> (k # 0),
                        prompt_eval_count |-> counts.val.prompt_eval_count,
                        eval_count |-> counts.val.eval_count])

\* Usage { prompt_tokens, completion_tokens, total_tokens }
Usage(prompt_tokens, completion_tokens) ==
    [prompt_tokens |-> prompt_tokens, completion_tokens |-> completion_tokens,
     total_tokens |-> prompt_tokens + completion_tokens]

\* let openai_chunk = ChatCompletionChunk { .. }
ChatCompletionChunk(ollama_chunk) ==
    [object |-> "chat.completion.chunk",
     delta |-> [role |-> None, content |-> ollama_chunk.content],
     finish_reason |-> IF ollama_chunk.done THEN Some("stop") ELSE None,
     usage |-> IF ollama_chunk.done
               THEN Some(Usage(UnwrapOr(ollama_chunk.prompt_eval_count, 0),
                               UnwrapOr(ollama_chunk.eval_count, 0)))
               ELSE None]

\* An item of the output stream: the bytes of one SSE frame.  A chunk frame
\* is format!("data: {}\n\n", json), held as its text around the JSON and the
\* chunk the JSON serialises; the terminator carries no chunk.
NoChunk ==
    [object |-> "", delta |-> [role |-> None, content |-> ""],
     finish_reason |-> None, usage |-> None]

SseEvent(chunk) == [frame |-> "data: {}\n\n", json |-> chunk]

\* Bytes::from("data: [DONE]\n\n")
DoneFrame == [frame |-> "data: [DONE]\n\n", json |-> NoChunk]

\* The body of `for line in text.lines()`: what one line makes the stream yield
TranslateLine(line) ==
    IF TrimIsEmpty(line) THEN << >>
    ELSE LET parsed == OllamaStreamChunk(line)
         IN  IF ~parsed.some THEN << >>
             ELSE IF parsed.val.content = "" /\ ~parsed.val.done THEN << >>
             ELSE <<SseEvent(ChatCompletionChunk(parsed.val))>>

RECURSIVE TranslateLines(_)
TranslateLines(lines) ==
    IF lines = << >> THEN << >>
    ELSE TranslateLine(Head(lines)) \o TranslateLines(Tail(lines))

\* The Ok(bytes) arm: String::from_utf8_lossy(&bytes) (the bytes here are
\* ASCII) and the loop over its lines
TranslateRead(bytes) == TranslateLines(StrLines(bytes))

\* The translator: unsent, streaming, done (its output stream ended) or err
\* (the request could not be sent).  rest is what the upstream has not yet
\* delivered, out the frames yielded so far.  History: body is all the
\* upstream sends, reads the network reads as they came, failed whether the
\* byte stream ended with an Err.
NoStream ==
    [pc |-> "unsent", body |-> "", rest |-> "", reads |-> << >>, out |-> << >>,
     failed |-> FALSE, result |-> None]

\* After the while loop: yield Ok(Bytes::from("data: [DONE]\n\n"))
AfterLoop(x) == [x EXCEPT !.out = Append(@, DoneFrame), !.pc = "done"]

\* Mutant of the Err arm: the stream ends where the upstream failed.
OnStreamErrReturns(x) == [x EXCEPT !.failed = TRUE, !.pc = "done"]

\* The Err(e) arm: log and break, which falls through to the [DONE] yield
OnStreamErr(x) == AfterLoop([x EXCEPT !.failed = TRUE])

\* ------------------------------------------------------------ handlers/chat.rs
\* What the backend does with the handler's POST: send() fails with msg, or
\* an HTTP answer arrives with a status and, for a chat call, a body that
\* decodes as OllamaResponse (data) or fails to (msg); for a streaming call,
\* the reads of its byte stream.
BackendAnswer(sent, status, parses, data, reads, msg) ==
    [sent |-> sent, status |-> status, parses |-> parses, data |-> data,
     reads |-> reads, msg |-> msg]

\* OllamaResponse { model, .., prompt_eval_count, eval_count }
OllamaResponse(model, prompt_eval_count, eval_count) ==
    [model |-> model, prompt_eval_count |-> prompt_eval_count,
     eval_count |-> eval_count]

NoData == OllamaResponse("", 0, 0)
NoAnswer == BackendAnswer(FALSE, 0, FALSE, NoData, << >>, "")

\* serde_json::to_string(&openai_chunk) of the handler's ChatCompletionChunk
\* (delta.content and finish_reason, no usage), in the abbreviated syntax
HandlerChunkJson(ollama_chunk) ==
    "{" \o ollama_chunk.content \o (IF ollama_chunk.done THEN "!" ELSE "") \o "}"

\* The body of the handler's `for line in text.lines()`
HandlerTranslateLine(line) ==
    IF TrimIsEmpty(line) THEN << >>
    ELSE LET parsed == OllamaStreamChunk(line)
         IN  IF ~parsed.some THEN << >>
             ELSE IF parsed.val.content = "" /\ ~parsed.val.done THEN << >>
             ELSE <<"data: " \o HandlerChunkJson(parsed.val) \o "\n\n">>

RECURSIVE HandlerTranslateReads(_)
HandlerTranslateReads(reads) ==
    IF reads = << >> THEN << >>
    ELSE LET lines == StrLines(Head(reads))
             Frames[i \in 0..Len(lines)] ==
                IF i = 0 THEN << >>
                ELSE Frames[i - 1] \o HandlerTranslateLine(lines[i])
         IN  Frames[Len(lines)] \o HandlerTranslateReads(Tail(reads))

\* The handler's sse_stream over an upstream that ends normally
HandlerSseStream(reads) ==
    Append(HandlerTranslateReads(reads), "data: [DONE]\n\n")

\* Mutant of chat_completions: the streaming branch reads the upstream to its
\* end before it answers, and answers 500 if the byte stream fails.
ChatCompletionsDrains(request, answer) ==
    IF UnwrapOr(request.stream, FALSE)
    THEN IF ~answer.sent
         THEN Response("ok", 500, "Ollama request failed: " \o answer.msg, << >>)
         ELSE IF answer.msg # ""
         THEN Response("ok", 500, "Stream error: " \o answer.msg, << >>)
         ELSE Response("ok", 200, "text/event-stream",
                       HandlerSseStream(answer.reads))
    ELSE IF ~answer.sent
         THEN Response("ok", 500, "\"" \o answer.msg \o "\"", << >>)
         ELSE IF ~answer.parses
         THEN Response("ok", 500, "Failed to parse response: " \o answer.msg,
                       << >>)
         ELSE Response("ok", 200, "chat.completion",
                  <<[object |-> "chat.completion",
                     model |-> answer.data.model,
                     finish_reason |-> "stop",
                     usage |-> Usage(answer.data.prompt_eval_count,
                                     answer.data.eval_count)]>>)

\* chat_completions(client, body): the answer for the request, given what
\* the backend did
ChatCompletions(request, answer) ==
    IF UnwrapOr(request.stream, FALSE)
    THEN IF ~answer.sent
         THEN Response("ok", 500, "Ollama request failed: " \o answer.msg, << >>)
         ELSE Response("ok", 200, "text/event-stream",
                       HandlerSseStream(answer.reads))
    ELSE IF ~answer.sent
         THEN Response("ok", 500, "\"" \o answer.msg \o "\"", << >>)
         ELSE IF ~answer.parses
         THEN Response("ok", 500, "Failed to parse response: " \o answer.msg,
                       << >>)
         ELSE Response("ok", 200, "chat.completion",
                  <<[object |-> "chat.completion",
                     model |-> answer.data.model,
                     finish_reason |-> "stop",
                     usage |-> Usage(answer.data.prompt_eval_count,
                                     answer.data.eval_count)]>>)

\* ------------------------------------------------------------ the adapters' chat
\* OllamaProvider::chat: Network if send() fails, Parse if the body does not
\* decode, else Ok; the answer's status is not looked at
OllamaChat(answer) ==
    IF ~answer.sent THEN Err("Network", 0, answer.msg)
    ELSE IF ~answer.parses THEN Err("Parse", 0, answer.msg)
    ELSE Ok("chat.completion")

\* OpenAIProvider::chat: the same two map_err(..)? steps
OpenAIChat(answer) ==
    IF ~answer.sent THEN Err("Network", 0, answer.msg)
    ELSE IF ~answer.parses THEN Err("Parse", 0, answer.msg)
    ELSE Ok("chat.completion")

\* u32 arithmetic.  A u32 is kept to U32Bits bits here.  `a + b` on two u32:
\* the sum if it fits; if it does not, the build decides: with overflow
\* checks (the dev profile) the thread panics, without (the release profile)
\* the sum wraps.
U32Modulus == 2 ^ U32Bits
U32 == 0..(U32Modulus - 1)
Builds == {"debug", "release"}

U32Add(a, b, build) ==
    IF a + b < U32Modulus THEN Some(a + b)
    ELSE IF build = "release" THEN Some((a + b) % U32Modulus)
    ELSE None

\* The call did not return: the thread panicked.
Panicked == Err("panic", 0, "attempt to add with overflow")

\* OllamaProvider::chat with the usage of the ChatCompletionResponse it
\* builds from the decoded OllamaResponse
OllamaChatResponse(answer, build) ==
    LET r == OllamaChat(answer)
        total == U32Add(answer.data.prompt_eval_count,
                        answer.data.eval_count, build)
    IN  IF ~r.ok THEN [result |-> r, usage |-> None]
        ELSE IF ~total.some THEN [result |-> Panicked, usage |-> None]
        ELSE [result |-> r,
              usage |-> Some([prompt_tokens |-> answer.data.prompt_eval_count,
                              completion_tokens |-> answer.data.eval_count,
                              total_tokens |-> total.val])]

\* OpenAIProvider::chat with the usage of the ChatCompletionResponse it
\* returns, which is the one decoded from the upstream's body
OpenAIChatResponse(answer) ==
    LET r == OpenAIChat(answer)
    IN  IF ~r.ok THEN [result |-> r, usage |-> None]
        ELSE [result |-> r, usage |-> Some(answer.data.usage)]

\* ------------------------------------------------------------ main.rs
\* The .wrap() calls of App::new() in the order they are written (Logger, an
\* actix pass-through, is left out).
wraps == <<"Tracking", "RateLimit", "Auth">>

Reverse(s) == [i \in 1..Len(s) |-> s[Len(s) + 1 - i]]

\* Mutant of the pipeline: middlewares run in the order they are registered.
PipelineAsRegistered == wraps

\* actix runs the middleware registered last first: the request path, outermost
\* layer first.  The route handler sits below the last layer.
Pipeline == Reverse(wraps)

HandlerLayer == Len(Pipeline) + 1

\* ------------------------------------------------------------ state
VARIABLES
    now,        \* the clock (Instant::now, SystemTime::now), in ticks
    rpm,        \* history: the requests_per_minute RateLimiter::new was given
    limiter,    \* the RateLimiter's default_capacity and default_refill_rate
    buckets,    \* RateLimiter.buckets: api key -> Bucket
    attempts,   \* SpecLimiter, history: every try_consume, in lock order
    stats,      \* RequestTracker.stats: api key -> KeyStats
    reqs,       \* the HTTP requests in flight, by slot
    arrived,    \* history: number of HTTP requests accepted so far
    ck,         \* SpecLimiter: the check_key call each thread is in
    ckCount,    \* history: number of check_key calls started by threads
    fb,         \* SpecFallback: the FallbackProvider and its call in progress
    fbCount,    \* history: number of calls made on the FallbackProvider
    xl,         \* SpecStream: the OllamaProvider::chat_stream translator
    sq,         \* SpecStats: the get_stats call and the tracker it is compared on
    tk,         \* SpecTracker: the process, its stats.json, the last tracker call
    ad,         \* SpecAdapters: the last ChatProvider::chat call on an adapter
    lk,         \* SpecLocks: the RwLock, the Mutexes and the threads in check_key
    sh,         \* SpecShared: the tracker's RwLock and the threads using the tracker
    bd          \* SpecBody: the streaming response body the server is sending

vars == <<now, rpm, limiter, buckets, attempts, stats, reqs, arrived, ck, ckCount,
          fb, fbCount, xl, sq, tk, ad, lk, sh, bd>>

\* A request in flight: its route, Authorization header and ?key= parameter;
\* its extensions (the ValidatedApiKey, if attached); the layer it is in; what
\* check_key answered for it; Tracking's start instant and api_key; the
\* answer on its way out; for a chat request its body.  History: answer is
\* what the backend did for it; trace lists the layers entered, then
\* "record" for Tracking's record_request; stats0 is the tracker at arrival.
IdleReq ==
    [pc |-> "idle", route |-> "", header |-> NoHeader, query |-> None,
     ext |-> None, layer |-> 0, checked |-> None, start |-> 0, tkey |-> "",
     result |-> None, trace |-> << >>, stats0 |-> << >>,
     body |-> NoRequest, answer |-> NoAnswer]

IdleCall == [pc |-> "idle", key |-> "", ret |-> None]

\* No FallbackProvider is built yet.  Once built: its fallback_model, the
\* operation and request of the call in progress or last made, and as history
\* of that call the backend calls it made, what they answered, and its result.
NoFallback ==
    [pc |-> "unbuilt", fallback_model |-> None, op |-> "", request |-> NoRequest,
     calls |-> << >>, returns |-> << >>, result |-> None]

\* SpecStats: no get_stats call has been made.  other is a second tracker,
\* kept to compare what get_stats answers on two trackers; n counts the
\* records made.  After the call: the caller and the ?key= parameters, and
\* the answers on stats (res) and on other (resOther).
NoStatsCall ==
    [pc |-> "idle", n |-> 0, ext |-> None, query |-> None, queryOther |-> None,
     other |-> << >>, res |-> None, resOther |-> None]

\* SpecTracker: the process is running on a fresh tracker and there is no
\* stats.json.  sub is the part of the clock below a tick, in SystemTime
\* units; file is stats.json; n counts the tracker calls made (a compared
\* pair as one) and restarts the starts after a shutdown.  History: op is the
\* last tracker call; onDisk says what stats.json is ("saved": what the last
\* shutdown wrote, "stale": what an earlier one wrote) and found what the
\* last start found; ideal is the tracker as it was at the last shutdown,
\* or empty if the start found no tracker, with the calls since made on it;
\* pair is the pair of calls being compared and the SystemTime each of
\* them read, ab the tracker after record_tokens then record_request, ba
\* after the same two calls in the opposite order.
NoOp == [kind |-> "", key |-> "", model |-> "", is_error |-> FALSE, t |-> 0,
         first |-> FALSE]

NoPair == [pc |-> "idle", key |-> "", model |-> "", is_error |-> FALSE,
           t1 |-> 0, t2 |-> 0, first |-> FALSE]

NoTrackerCall ==
    [pc |-> "running", sub |-> 0, n |-> 0, restarts |-> 0, file |-> None,
     onDisk |-> "missing", found |-> "missing", ideal |-> << >>, op |-> NoOp,
     pair |-> NoPair, ab |-> << >>, ba |-> << >>]

\* SpecAdapters: no chat call has been made on an adapter.  After a call:
\* the adapter, the build of the gateway, what the upstream answered and
\* what the call returned.
NoAdapterCall ==
    [pc |-> "idle", adapter |-> "", build |-> "", prompt_eval_count |-> 0,
     eval_count |-> 0, out |-> [result |-> Ok(""), usage |-> None]]

\* SpecLocks: no thread is in check_key and no lock is held.  readers and
\* writer are the threads holding the RwLock of the map, mutex the thread
\* holding each key's bucket Mutex (0: nobody); th is each thread's position
\* in check_key, its key and, as history, the lock operations of its current
\* or last call; calls counts the calls started; policy is the RwLock's,
\* known from the first call on.
LkThreads == {1, 2, 3}

NoLocks ==
    [readers |-> {}, writer |-> 0, mutex |-> [k \in {"k1", "a1"} |-> 0],
     calls |-> 0, policy |-> "any",
     th |-> [t \in LkThreads |-> [pc |-> "idle", key |-> "", trace |-> << >>]]]

\* SpecShared: no thread is using the tracker and its RwLock is free.
\* readers and writer are the threads holding the lock (0: nobody); th is
\* each thread's position in its call and the call's arguments; calls
\* counts the calls started; policy is the RwLock's, known from the first
\* call on.  History: whole is the tracker as the last write guard left it;
\* done counts, for the key the calls are made on, the calls that took the
\* write lock and what they were given; each reader's seen is the answer it
\* built and unbroken the answer the tracker in `whole` gives.
NoSharedCall ==
    [pc |-> "idle", op |-> "", key |-> "", latency_ms |-> 0, is_error |-> FALSE,
     prompt_tokens |-> 0, completion_tokens |-> 0, model |-> "",
     seen |-> None, unbroken |-> None]

NoShared ==
    [readers |-> {}, writer |-> 0, calls |-> 0, policy |-> "any",
     whole |-> << >>,
     done |-> [requests |-> 0, errors |-> 0, latency_ms |-> 0, tokenCalls |-> 0,
               prompt_tokens |-> 0, completion_tokens |-> 0],
     th |-> [t \in LkThreads |-> NoSharedCall]]

\* SpecBody: the server is sending no response body.  Once it sends one:
\* req is the number of the request it answers, rest the reads the
\* upstream's byte stream has yet to give and broken whether it then fails
\* with an Err instead of ending; out is the frames sent so far and failed
\* whether the Err was met.  History: atSend is the tracker as it was when
\* the first poll of the body was due.
NoBody ==
    [pc |-> "none", req |-> 0, rest |-> << >>, broken |-> FALSE, out |-> << >>,
     failed |-> FALSE, atSend |-> << >>]

Init ==
    /\ now = 0
    /\ rpm \in 1..MaxRPM
    /\ limiter = RateLimiterNew(rpm)
    /\ buckets = << >>
    /\ attempts = << >>
    /\ stats = << >>
    /\ reqs = [s \in Slots |-> IdleReq]
    /\ arrived = 0
    /\ ck = [t \in Threads |-> IdleCall]
    /\ ckCount = 0
    /\ fb = NoFallback
    /\ fbCount = 0
    /\ xl = NoStream
    /\ sq = NoStatsCall
    /\ tk = NoTrackerCall
    /\ ad = NoAdapterCall
    /\ lk = NoLocks
    /\ sh = NoShared
    /\ bd = NoBody


\* ------------------------------------------------------------ inputs
Headers ==
    { NoHeader, OpaqueHeader,
      TextHeader("Bearer k1"), TextHeader("Bearer a1"),
      TextHeader("bearer k1"), TextHeader("Bearer k1 "),
      TextHeader("Bearer  a1"), TextHeader("Bearer zz") }

Routes == {"health", "chat", "stats"}

\* The ?key= parameter of a stats request.  Only get_stats reads it, so it is
\* drawn when the request reaches that handler.
Queries == {None, Some("k1"), Some("zz")}

LimiterKeys == {"k1", "a1"}

\* The JSON body of a chat request.
ChatBodies ==
    { ChatCompletionRequest("m1", <<[role |-> "user", content |-> "hi"]>>, st) :
        st \in {None, Some(TRUE)} }

\* What the backend may do with a chat call and with a streaming call.
ChatAnswers ==
    { BackendAnswer(FALSE, 0, FALSE, NoData, << >>, "connection refused"),
      BackendAnswer(TRUE, 200, TRUE, OllamaResponse("m1", 3, 5), << >>, ""),
      BackendAnswer(TRUE, 200, FALSE, NoData, << >>, "missing field"),
      BackendAnswer(TRUE, 503, FALSE, NoData, << >>, "expected value") }

StreamAnswers ==
    { BackendAnswer(FALSE, 0, FALSE, NoData, << >>, "connection refused"),
      BackendAnswer(TRUE, 200, FALSE, NoData, <<"{a}\n", "oops\n{!p3e2}\n">>, "") }

AnswersTo(request) ==
    IF UnwrapOr(request.stream, FALSE) THEN StreamAnswers ELSE ChatAnswers

\* ------------------------------------------------------------ the pipeline
\* A result travelling outwards from below layer L + 1 next meets the
\* innermost layer at or above L that acts on responses: Tracking, the only
\* middleware doing work after its inner future resolves (0: none is left).
PostLayer(L) ==
    LET T == {i \in 1..L : Pipeline[i] = "Tracking"}
    IN  IF T = {} THEN 0 ELSE CHOOSE i \in T : \A j \in T : j <= i

Returning(req, res, L) ==
    LET p == PostLayer(L)
    IN  [req EXCEPT !.result = Some(res),
                    !.pc = IF p = 0 THEN "done" ELSE "ret",
                    !.layer = p]

\* self.service.call(req): the request enters the next layer
CallInner(req, name) ==
    [req EXCEPT !.layer = @ + 1, !.pc = "call", !.trace = Append(@, name)]

AtLayer(s, name) ==
    /\ reqs[s].pc = "call"
    /\ reqs[s].layer <= Len(Pipeline)
    /\ Pipeline[reqs[s].layer] = name

\* The server accepts a request, on a connection that is free or whose last
\* response has been sent; it enters the outermost layer.
Arrive(s, route, h) ==
    /\ reqs[s].pc \in {"idle", "done"}
    /\ arrived < MaxReqs
    /\ arrived' = arrived + 1
    /\ reqs' = [reqs EXCEPT ![s] =
            [IdleReq EXCEPT !.pc = "call", !.layer = 1, !.route = route,
                            !.header = h, !.stats0 = stats]]
    /\ UNCHANGED <<now, rpm, limiter, buckets, attempts, stats, ck, ckCount, fb, fbCount, xl, sq, tk, ad, lk, sh, bd>>

\* Mutant of AuthMiddlewareService::call: a Bearer token in neither key list
\* is attached as a user's key and passed on.
AuthDecisionAttachesAny(req) ==
    LET token == ExtractToken(req.header)
        role == RoleOf(token)
    IN  IF token.some
        THEN CallInner([req EXCEPT !.ext =
                          Some(ValidatedApiKey(token.val,
                                   IF role.some THEN role.val ELSE "User"))],
                       "Auth")
        ELSE Returning([req EXCEPT !.trace = Append(@, "Auth")],
                       Response("err", 401, "Invalid or missing API key", << >>),
                       req.layer - 1)

\* AuthMiddlewareService::call
AuthDecision(req) ==
    LET token == ExtractToken(req.header)
        role == RoleOf(token)
    IN  IF role.some
        THEN CallInner([req EXCEPT !.ext =
                          Some(ValidatedApiKey(token.val, role.val))], "Auth")
        ELSE Returning([req EXCEPT !.trace = Append(@, "Auth")],
                       Response("err", 401, "Invalid or missing API key", << >>),
                       req.layer - 1)

AuthCall(s) ==
    /\ AtLayer(s, "Auth")
    /\ reqs' = [reqs EXCEPT ![s] = AuthDecision(reqs[s])]
    /\ UNCHANGED <<now, rpm, limiter, buckets, attempts, stats, arrived, ck, ckCount, fb, fbCount, xl, sq, tk, ad, lk, sh, bd>>

\* Mutant of the rate-limit middleware: a denied request is still passed on.
AfterCheckKeyNoReturn(req, ok) ==
    CallInner([req EXCEPT !.checked = Some(ok)], "RateLimit")

\* RateLimitMiddlewareService::call after limiter.check_key(&key) answered
AfterCheckKey(req, ok) ==
    IF ok
    THEN CallInner([req EXCEPT !.checked = Some(ok)], "RateLimit")
    ELSE Returning([req EXCEPT !.checked = Some(ok),
                               !.trace = Append(@, "RateLimit")],
                   Response("err", 429, "Rate limit exceeded", << >>),
                   req.layer - 1)

\* RateLimitMiddlewareService::call with check_key's fast path: no caller
\* attached, or the bucket exists (read lock, bucket mutex, try_consume), or
\* a miss that drops the read lock and goes for the write lock.
RateLimitCall(s) ==
    /\ AtLayer(s, "RateLimit")
    /\ LET req == reqs[s]
       IN  IF ~req.ext.some
           THEN /\ reqs' = [reqs EXCEPT ![s] = CallInner(req, "RateLimit")]
                /\ UNCHANGED <<buckets, attempts>>
           ELSE LET key == req.ext.val.key
                    hit == FastPath(buckets, key, now)
                IN  IF hit.some
                    THEN /\ buckets' = [buckets EXCEPT ![key] = hit.val.bucket]
                         /\ reqs' = [reqs EXCEPT ![s] = AfterCheckKey(req, hit.val.ok)]
                         /\ UNCHANGED attempts
                    ELSE /\ reqs' = [reqs EXCEPT ![s].pc = "slow"]
                         /\ UNCHANGED <<buckets, attempts>>
    /\ UNCHANGED <<now, rpm, limiter, stats, arrived, ck, ckCount, fb, fbCount, xl, sq, tk, ad, lk, sh, bd>>

\* check_key's slow path: write lock, entry().or_insert_with, try_consume
RateLimitSlow(s) ==
    /\ reqs[s].pc = "slow"
    /\ LET req == reqs[s]
           key == req.ext.val.key
           sp == SlowPath(buckets, key, limiter, now)
       IN  /\ buckets' = [sp.map EXCEPT ![key] = sp.r.bucket]
           /\ reqs' = [reqs EXCEPT ![s] = AfterCheckKey(req, sp.r.ok)]
           /\ UNCHANGED attempts
    /\ UNCHANGED <<now, rpm, limiter, stats, arrived, ck, ckCount, fb, fbCount, xl, sq, tk, ad, lk, sh, bd>>

\* TrackingMiddlewareService::call up to self.service.call(req)
TrackingCall(s) ==
    /\ AtLayer(s, "Tracking")
    /\ reqs' = [reqs EXCEPT ![s] =
            CallInner([reqs[s] EXCEPT
                          !.tkey = IF reqs[s].ext.some
                                   THEN reqs[s].ext.val.key ELSE "unknown",
                          !.start = now],
                      "Tracking")]
    /\ UNCHANGED <<now, rpm, limiter, buckets, attempts, stats, arrived, ck, ckCount, fb, fbCount, xl, sq, tk, ad, lk, sh, bd>>

\* The router dispatches to the route's handler, which answers.
HandlerCall(s) ==
    /\ reqs[s].pc = "call"
    /\ reqs[s].layer = HandlerLayer
    /\ LET req == [reqs[s] EXCEPT !.trace = Append(@, "Handler")]
       IN  \/ /\ req.route = "health"
              /\ reqs' = [reqs EXCEPT ![s] = Returning(req, Health, Len(Pipeline))]
           \/ /\ req.route = "chat"
              /\ \E request \in ChatBodies :
                    \E answer \in AnswersTo(request) :
                        reqs' = [reqs EXCEPT ![s] =
                            Returning([req EXCEPT !.body = request,
                                                  !.answer = answer],
                                      ChatCompletions(request, answer),
                                      Len(Pipeline))]
           \/ /\ req.route = "stats"
              /\ \E q \in Queries :
                    reqs' = [reqs EXCEPT ![s] =
                        Returning([req EXCEPT !.query = q],
                                  GetStats(req.ext, q, stats), Len(Pipeline))]
    /\ UNCHANGED <<now, rpm, limiter, buckets, attempts, stats, arrived, ck, ckCount, fb, fbCount, xl, sq, tk, ad, lk, sh, bd>>

\* TrackingMiddlewareService::call after fut.await: an Err leaves through `?`,
\* an Ok response is recorded.
TrackingReturn(s) ==
    /\ reqs[s].pc = "ret"
    /\ Pipeline[reqs[s].layer] = "Tracking"
    /\ LET req == reqs[s]
           res == req.result.val
       IN  IF res.kind = "ok"
           THEN /\ stats' = RecordRequest(stats, req.tkey,
                                          ElapsedMs(req.start, now),
                                          IsServerError(res.status),
                                          SystemTimeNow(now, 0))
                /\ reqs' = [reqs EXCEPT ![s] =
                        Returning([req EXCEPT !.trace = Append(@, "record")],
                                  res, req.layer - 1)]
           ELSE /\ stats' = stats
                /\ reqs' = [reqs EXCEPT ![s] = Returning(req, res, req.layer - 1)]
    /\ UNCHANGED <<now, rpm, limiter, buckets, attempts, arrived, ck, ckCount, fb, fbCount, xl, sq, tk, ad, lk, sh, bd>>

\* Time passes.
Tick ==
    /\ now < MaxTime
    /\ now' = now + 1
    /\ UNCHANGED <<rpm, limiter, buckets, attempts, stats, reqs, arrived, ck, ckCount, fb, fbCount, xl, sq, tk, ad, lk, sh, bd>>

Next ==
    \/ \E s \in Slots, route \in Routes, h \in Headers : Arrive(s, route, h)
    \/ \E s \in Slots : AuthCall(s)
    \/ \E s \in Slots : RateLimitCall(s)
    \/ \E s \in Slots : RateLimitSlow(s)
    \/ \E s \in Slots : TrackingCall(s)
    \/ \E s \in Slots : HandlerCall(s)
    \/ \E s \in Slots : TrackingReturn(s)
    \/ Tick

Spec == Init /\ [][Next]_vars

\* ------------------------------------------------------------ the limiter alone
\* Worker threads call RateLimiter::check_key directly and concurrently.  Every
\* try_consume is logged in attempts: its key, its Instant::now, its answer and
\* the tokens it left; the bucket it was made on and the bucket it left; the
\* path of check_key it was made on, and whether that call put the bucket
\* into the map (the key had none, or it had another one that was replaced).

\* Mutant of check_key: the keys share one bucket, what a try_consume leaves
\* is what every key's next call finds.
StoreConsumeShared(map, key, r, path) ==
    /\ buckets' = [k \in DOMAIN map |-> r.bucket]
    /\ attempts' = Append(attempts,
            [key |-> key, t |-> now, ok |-> r.ok, tokens |-> r.bucket.tokens,
             before |-> map[key], after |-> r.bucket, path |-> path,
             inserted |-> IF key \in DOMAIN buckets
                          THEN map[key] # buckets[key] ELSE TRUE])

\* A try_consume result r on key stored into map; the attempt is logged.
StoreConsume(map, key, r, path) ==
    /\ buckets' = [map EXCEPT ![key] = r.bucket]
    /\ attempts' = Append(attempts,
            [key |-> key, t |-> now, ok |-> r.ok, tokens |-> r.bucket.tokens,
             before |-> map[key], after |-> r.bucket, path |-> path,
             inserted |-> IF key \in DOMAIN buckets
                          THEN map[key] # buckets[key] ELSE TRUE])

CkBegin(th, key) ==
    /\ ck[th].pc = "idle"
    /\ ckCount < MaxCalls
    /\ ckCount' = ckCount + 1
    /\ ck' = [ck EXCEPT ![th] = [pc |-> "fast", key |-> key, ret |-> None]]
    /\ UNCHANGED <<now, rpm, limiter, buckets, attempts, stats, reqs, arrived, fb, fbCount, xl, sq, tk, ad, lk, sh, bd>>

CkFast(th) ==
    /\ ck[th].pc = "fast"
    /\ LET hit == FastPath(buckets, ck[th].key, now)
       IN  IF hit.some
           THEN /\ StoreConsume(buckets, ck[th].key, hit.val, "fast")
                /\ ck' = [ck EXCEPT ![th].pc = "idle",
                                    ![th].ret = Some(hit.val.ok)]
           ELSE /\ ck' = [ck EXCEPT ![th].pc = "slow"]
                /\ UNCHANGED <<buckets, attempts>>
    /\ UNCHANGED <<now, rpm, limiter, stats, reqs, arrived, ckCount, fb, fbCount, xl, sq, tk, ad, lk, sh, bd>>

CkSlow(th) ==
    /\ ck[th].pc = "slow"
    /\ LET sp == SlowPath(buckets, ck[th].key, limiter, now)
       IN  /\ StoreConsume(sp.map, ck[th].key, sp.r, "slow")
           /\ ck' = [ck EXCEPT ![th].pc = "idle", ![th].ret = Some(sp.r.ok)]
    /\ UNCHANGED <<now, rpm, limiter, stats, reqs, arrived, ckCount, fb, fbCount, xl, sq, tk, ad, lk, sh, bd>>

NextLimiter ==
    \/ \E th \in Threads, key \in LimiterKeys : CkBegin(th, key)
    \/ \E th \in Threads : CkFast(th)
    \/ \E th \in Threads : CkSlow(th)
    \/ Tick

SpecLimiter == Init /\ [][NextLimiter]_vars


\* ------------------------------------------------------------ the fallback provider alone
Models == {"m1", "fb"}
MessageLists == { << >>, <<[role |-> "user", content |-> "hi"]>> }
StreamFlags == {None, Some(FALSE), Some(TRUE)}
FallbackModels == {None, Some("fb")}

Requests ==
    { ChatCompletionRequest(m, ms, st) :
        m \in Models, ms \in MessageLists, st \in StreamFlags }

\* What a backend can answer to chat or chat_stream.
Outcomes ==
    { Ok("a"), Ok("b"),
      Err("Network", 0, "connection refused"),
      Err("Parse", 0, "bad json"),
      Err("ProviderError", 503, "overloaded") }

otherVars == <<now, rpm, limiter, buckets, attempts, stats, reqs, arrived, ck, ckCount,
               xl, sq, tk, ad, lk, sh, bd>>

\* FallbackProvider::new(primary, backup, fallback_model)
FbNew(fm) ==
    /\ fb.pc = "unbuilt"
    /\ fb' = [NoFallback EXCEPT !.pc = "ready", !.fallback_model = fm]
    /\ UNCHANGED <<otherVars, fbCount>>

\* FallbackProvider::chat up to self.primary.chat(request).await
FbChat(request) ==
    /\ fb.pc = "ready"
    /\ fbCount < MaxFbCalls
    /\ fbCount' = fbCount + 1
    /\ fb' = [fb EXCEPT !.pc = "primary_chat", !.op = "chat",
                        !.request = request,
                        !.calls = <<ProviderCall("primary", "chat", request)>>,
                        !.returns = << >>, !.result = None]
    /\ UNCHANGED otherVars

FbPrimaryChatAnswers(outcome) ==
    /\ fb.pc = "primary_chat"
    /\ fb' = ChatAfterPrimary(fb, outcome)
    /\ UNCHANGED <<otherVars, fbCount>>

FbBackupChatAnswers(outcome) ==
    /\ fb.pc = "backup_chat"
    /\ fb' = ChatAfterBackup(fb, outcome)
    /\ UNCHANGED <<otherVars, fbCount>>

\* FallbackProvider::chat_stream up to self.primary.chat_stream(request).await
FbChatStream(request) ==
    /\ fb.pc = "ready"
    /\ fbCount < MaxFbCalls
    /\ fbCount' = fbCount + 1
    /\ fb' = [fb EXCEPT !.pc = "primary_stream", !.op = "chat_stream",
                        !.request = request,
                        !.calls = <<ProviderCall("primary", "chat_stream", request)>>,
                        !.returns = << >>, !.result = None]
    /\ UNCHANGED otherVars

FbPrimaryStreamAnswers(outcome) ==
    /\ fb.pc = "primary_stream"
    /\ fb' = StreamAfterPrimary(fb, outcome)
    /\ UNCHANGED <<otherVars, fbCount>>

NextFallback ==
    \/ \E fm \in FallbackModels : FbNew(fm)
    \/ \E request \in Requests : FbChat(request)
    \/ \E outcome \in Outcomes : FbPrimaryChatAnswers(outcome)
    \/ \E outcome \in Outcomes : FbBackupChatAnswers(outcome)
    \/ \E request \in Requests : FbChatStream(request)
    \/ \E outcome \in Outcomes : FbPrimaryStreamAnswers(outcome)

SpecFallback == Init /\ [][NextFallback]_vars


\* ------------------------------------------------------------ the translator alone
\* What an upstream sends over one chat_stream response: whole lines, a done
\* line (if any) last, the final newline optional.
UpstreamBodies ==
    { "{a}\n{!p3e2}\n",
      "{}\noops\n{b}\n{!}\n",
      "{a}\r\n\n{b}",
      "{a}\n{!e2}\n" }

streamOther == <<now, rpm, limiter, buckets, attempts, stats, reqs, arrived, ck,
                 ckCount, fb, fbCount, sq, tk, ad, lk, sh, bd>>

\* OllamaProvider::chat_stream: the POST is answered and the stream is built
XlChatStream(body) ==
    /\ xl.pc = "unsent"
    /\ xl' = [xl EXCEPT !.pc = "streaming", !.body = body, !.rest = body,
                        !.result = Some(Ok("stream"))]
    /\ UNCHANGED streamOther

\* OllamaProvider::chat_stream: send() fails, `?` returns Err(Network)
XlSendFails ==
    /\ xl.pc = "unsent"
    /\ xl' = [xl EXCEPT !.pc = "err",
                        !.result = Some(Err("Network", 0, "connection refused"))]
    /\ UNCHANGED streamOther

\* byte_stream.next() gives Some(Ok(bytes)): the next n bytes, wherever the
\* network cut them
XlRead(n) ==
    /\ xl.pc = "streaming"
    /\ n \in 1..Len(xl.rest)
    /\ Len(xl.reads) + 1 < MaxReads \/ n = Len(xl.rest)
    /\ LET bytes == SubSeq(xl.rest, 1, n)
       IN  xl' = [xl EXCEPT !.rest = SubSeq(xl.rest, n + 1, Len(xl.rest)),
                            !.reads = Append(@, bytes),
                            !.out = @ \o TranslateRead(bytes)]
    /\ UNCHANGED streamOther

\* byte_stream.next() gives Some(Err(e)): the upstream failed mid-flight
XlByteStreamErr ==
    /\ xl.pc = "streaming"
    /\ xl' = OnStreamErr(xl)
    /\ UNCHANGED streamOther

\* byte_stream.next() gives None: the upstream ended
XlByteStreamEnd ==
    /\ xl.pc = "streaming"
    /\ xl.rest = ""
    /\ xl' = AfterLoop(xl)
    /\ UNCHANGED streamOther

NextStream ==
    \/ \E body \in UpstreamBodies : XlChatStream(body)
    \/ XlSendFails
    \/ \E n \in 1..Len(xl.rest) : XlRead(n)
    \/ XlByteStreamErr
    \/ XlByteStreamEnd

SpecStream == Init /\ [][NextStream]_vars


\* ------------------------------------------------------------ the stats endpoint alone
\* Keys the tracker may hold (of 0, 1, 8, 9 and 15 characters), the callers
\* Auth may have validated, and the ?key= parameters.
TrackerKeys == {"", "u", "user-008", "user-0009", "sk-admin-key-01"}

StatsCallers ==
    { None,
      Some(ValidatedApiKey("u", "User")),
      Some(ValidatedApiKey("user-008", "User")),
      Some(ValidatedApiKey("user-0009", "User")),
      Some(ValidatedApiKey("sk-admin-key-01", "Admin")) }

StatsQueries == {None, Some(""), Some("user-0009"), Some("zz")}
OtherQueries == {None, Some("user-0009")}

statsOther == <<now, rpm, limiter, buckets, attempts, reqs, arrived, ck,
                ckCount, fb, fbCount, xl, tk, ad, lk, sh, bd>>

\* An update goes to the tracker, to the second tracker, or to both.
Targets == {"stats", "other", "both"}

\* RequestTracker::record_request(key, 7, true)
StRecordRequest(target, key) ==
    /\ sq.pc = "idle"
    /\ sq.n < MaxRecords
    /\ stats' = IF target \in {"stats", "both"}
                THEN RecordRequest(stats, key, 7, TRUE, SystemTimeNow(now, 0)) ELSE stats
    /\ sq' = [sq EXCEPT !.n = @ + 1,
                        !.other = IF target \in {"other", "both"}
                                  THEN RecordRequest(@, key, 7, TRUE, SystemTimeNow(now, 0)) ELSE @]
    /\ UNCHANGED statsOther

\* RequestTracker::record_tokens(key, 3, 5, "m1")
StRecordTokens(target, key) ==
    /\ sq.pc = "idle"
    /\ sq.n < MaxRecords
    /\ stats' = IF target \in {"stats", "both"}
                THEN RecordTokens(stats, key, 3, 5, "m1", SystemTimeNow(now, 0)) ELSE stats
    /\ sq' = [sq EXCEPT !.n = @ + 1,
                        !.other = IF target \in {"other", "both"}
                                  THEN RecordTokens(@, key, 3, 5, "m1", SystemTimeNow(now, 0)) ELSE @]
    /\ UNCHANGED statsOther

\* GET /v1/stats reaches get_stats: answered on the tracker, and on the second
\* tracker with a ?key= of its own
StGetStats(ext, query, queryOther) ==
    /\ sq.pc = "idle"
    /\ sq' = [sq EXCEPT !.pc = "done", !.ext = ext, !.query = query,
                        !.queryOther = queryOther,
                        !.res = Some(GetStats(ext, query, stats)),
                        !.resOther = Some(GetStats(ext, queryOther, sq.other))]
    /\ UNCHANGED <<stats, statsOther>>

NextStats ==
    \/ \E target \in Targets, key \in TrackerKeys : StRecordRequest(target, key)
    \/ \E target \in Targets, key \in TrackerKeys : StRecordTokens(target, key)
    \/ \E ext \in StatsCallers, query \in StatsQueries, queryOther \in OtherQueries :
          StGetStats(ext, query, queryOther)

SpecStats == Init /\ [][NextStats]_vars

\* ------------------------------------------------------------ the tracker alone
\* Tracker calls on two keys, the clock advancing between them, and the
\* process shutting down and starting again on what stats.json then holds.
TkKeys == {"k1", "k2"}
TkModels == {"m1", "m2"}

trackerOther == <<now, rpm, limiter, buckets, attempts, reqs, arrived, ck,
                  ckCount, fb, fbCount, xl, sq, ad, lk, sh, bd>>

\* SystemTime::now() as the tracker reads it
TkNow == SystemTimeNow(now, tk.sub)

\* The clock advances by one SystemTime unit.
TkTick ==
    /\ tk.pc = "running" /\ tk.sub < MaxSub
    /\ tk' = [tk EXCEPT !.sub = @ + 1]
    /\ UNCHANGED <<stats, trackerOther>>

\* tracker.write().unwrap().record_request(key, 7, is_error)
TkRecordRequest(key, is_error) ==
    /\ tk.pc = "running" /\ tk.pair.pc # "second" /\ tk.n < MaxOps
    /\ stats' = RecordRequest(stats, key, 7, is_error, TkNow)
    /\ tk' = [tk EXCEPT
            !.n = @ + 1,
            !.op = [kind |-> "request", key |-> key, model |-> "",
                    is_error |-> is_error, t |-> TkNow,
                    first |-> key \notin DOMAIN stats],
            !.ideal = RecordRequest(@, key, 7, is_error, TkNow)]
    /\ UNCHANGED trackerOther

\* tracker.write().unwrap().record_tokens(key, 3, 5, model)
TkRecordTokens(key, model) ==
    /\ tk.pc = "running" /\ tk.pair.pc # "second" /\ tk.n < MaxOps
    /\ stats' = RecordTokens(stats, key, 3, 5, model, TkNow)
    /\ tk' = [tk EXCEPT
            !.n = @ + 1,
            !.op = [kind |-> "tokens", key |-> key, model |-> model,
                    is_error |-> FALSE, t |-> TkNow,
                    first |-> key \notin DOMAIN stats],
            !.ideal = RecordTokens(@, key, 3, 5, model, TkNow)]
    /\ UNCHANGED trackerOther

\* A record_tokens and a record_request for one key are made one after the
\* other, once in a process.  The tracker takes record_tokens first, at the
\* instant t1, and record_request second, at t2; ba is the tracker the pair
\* began on and, after the second call, that tracker had the record_request
\* reading t2 been made first and the record_tokens reading t1 second.
\* The first of the two calls:
TkPairFirst(key, model, is_error) ==
    /\ tk.pc = "running" /\ tk.pair.pc = "idle" /\ tk.n < MaxOps
    /\ stats' = RecordTokens(stats, key, 3, 5, model, TkNow)
    /\ tk' = [tk EXCEPT
            !.n = @ + 1,
            !.op = [kind |-> "tokens", key |-> key, model |-> model,
                    is_error |-> FALSE, t |-> TkNow,
                    first |-> key \notin DOMAIN stats],
            !.ideal = RecordTokens(@, key, 3, 5, model, TkNow),
            !.pair = [pc |-> "second", key |-> key, model |-> model,
                      is_error |-> is_error, t1 |-> TkNow, t2 |-> TkNow,
                      first |-> key \notin DOMAIN stats],
            !.ab = RecordTokens(stats, key, 3, 5, model, TkNow),
            !.ba = stats]
    /\ UNCHANGED trackerOther

\* The second of the two calls:
TkPairSecond ==
    /\ tk.pc = "running" /\ tk.pair.pc = "second"
    /\ LET p == tk.pair
       IN  /\ stats' = RecordRequest(stats, p.key, 7, p.is_error, TkNow)
           /\ tk' = [tk EXCEPT
                   !.op = [kind |-> "request", key |-> p.key, model |-> "",
                           is_error |-> p.is_error, t |-> TkNow,
                           first |-> FALSE],
                   !.ideal = RecordRequest(@, p.key, 7, p.is_error, TkNow),
                   !.pair = [p EXCEPT !.pc = "done", !.t2 = TkNow],
                   !.ab = RecordRequest(@, p.key, 7, p.is_error, TkNow),
                   !.ba = RecordTokens(
                              RecordRequest(@, p.key, 7, p.is_error, TkNow),
                              p.key, 3, 5, p.model, p.t1)]
    /\ UNCHANGED trackerOther

\* main after server.await: save_to_file("stats.json") writes the tracker,
\* or fails in File::create (the file stays as it was) or in the write (the
\* file is left truncated); a failure is only printed.  The process exits.
\* There are no more shutdowns than tracker calls, which bounds the run.
SaveOutcomes == {"saved", "create failed", "write failed"}

TkShutdown(outcome) ==
    /\ tk.pc = "running" /\ tk.pair.pc # "second"
    /\ tk.restarts < tk.n
    /\ tk' = [tk EXCEPT
            !.pc = "stopped", !.ideal = stats,
            !.file = CASE outcome = "saved" -> SaveToFile(stats)
                       [] outcome = "create failed" -> @
                       [] OTHER -> GarbageFile,
            !.onDisk = CASE outcome = "saved" -> "saved"
                         [] outcome = "create failed" ->
                                IF @ = "saved" THEN "stale" ELSE @
                         [] OTHER -> "garbage"]
    /\ UNCHANGED <<stats, trackerOther>>

\* While the process is down stats.json is removed, or overwritten with
\* something that is not a tracker.
TkFileLost(how) ==
    /\ tk.pc = "stopped"
    /\ tk.onDisk \in {"saved", "stale"}
    /\ tk' = [tk EXCEPT
            !.file = IF how = "missing" THEN None ELSE GarbageFile,
            !.onDisk = how]
    /\ UNCHANGED <<stats, trackerOther>>

\* main up to the server's start: the tracker is loaded or made new
TkStart ==
    /\ tk.pc = "stopped"
    /\ stats' = StartTracker(tk.file)
    /\ tk' = [tk EXCEPT
            !.pc = "running", !.restarts = @ + 1, !.found = tk.onDisk,
            !.ideal = IF tk.onDisk = "saved" THEN @ ELSE << >>,
            !.op = NoOp, !.pair = NoPair, !.ab = << >>, !.ba = << >>]
    /\ UNCHANGED trackerOther

NextTracker ==
    \/ TkTick
    \/ \E key \in TkKeys, is_error \in BOOLEAN : TkRecordRequest(key, is_error)
    \/ \E key \in TkKeys, model \in TkModels : TkRecordTokens(key, model)
    \/ \E key \in TkKeys : TkPairFirst(key, "m1", TRUE)
    \/ TkPairSecond
    \/ \E outcome \in SaveOutcomes : TkShutdown(outcome)
    \/ \E how \in {"missing", "garbage"} : TkFileLost(how)
    \/ TkStart

SpecTracker == Init /\ [][NextTracker]_vars


\* ------------------------------------------------------------ the adapters alone
\* One non-streaming chat call on the local adapter or on the hosted one.
adaptersOther == <<now, rpm, limiter, buckets, attempts, stats, reqs, arrived,
                   ck, ckCount, fb, fbCount, xl, sq, tk, lk, sh, bd>>

\* What the local upstream answers: nothing, a body that does not decode,
\* or an OllamaResponse with any two u32 counts
OllamaAnswers ==
    { BackendAnswer(FALSE, 0, FALSE, NoData, << >>, "connection refused"),
      BackendAnswer(TRUE, 200, FALSE, NoData, << >>, "bad json") }
    \cup { BackendAnswer(TRUE, 200, TRUE, OllamaResponse("m1", p, e), << >>, "") :
             p \in U32, e \in U32 }

\* What the hosted upstream answers: nothing, a body that does not decode,
\* or a ChatCompletionResponse whose usage adds up
OpenAIUsages ==
    { [prompt_tokens |-> p, completion_tokens |-> c, total_tokens |-> p + c] :
         p \in {0, 3, U32Modulus - 1}, c \in {0, 5} } 

OpenAIAnswers ==
    { BackendAnswer(FALSE, 0, FALSE, [model |-> "", usage |-> None], << >>,
                    "connection refused"),
      BackendAnswer(TRUE, 200, FALSE, [model |-> "", usage |-> None], << >>,
                    "bad json") }
    \cup { BackendAnswer(TRUE, 200, TRUE, [model |-> "m1", usage |-> u], << >>, "") :
             u \in {x \in OpenAIUsages : x.total_tokens \in U32} }

AdOllamaChat(build, answer) ==
    /\ ad.pc = "idle"
    /\ ad' = [pc |-> "done", adapter |-> "ollama", build |-> build,
              prompt_eval_count |-> answer.data.prompt_eval_count,
              eval_count |-> answer.data.eval_count,
              out |-> OllamaChatResponse(answer, build)]
    /\ UNCHANGED adaptersOther

AdOpenAIChat(build, answer) ==
    /\ ad.pc = "idle"
    /\ ad' = [pc |-> "done", adapter |-> "openai", build |-> build,
              prompt_eval_count |-> 0, eval_count |-> 0,
              out |-> OpenAIChatResponse(answer)]
    /\ UNCHANGED adaptersOther

NextAdapters ==
    \/ \E build \in Builds, answer \in OllamaAnswers : AdOllamaChat(build, answer)
    \/ \E build \in Builds, answer \in OpenAIAnswers : AdOpenAIChat(build, answer)

SpecAdapters == Init /\ [][NextAdapters]_vars


\* ------------------------------------------------------------ the limiter's locks
\* check_key lock operation by lock operation: three threads, the RwLock of
\* the map and the Mutex of each bucket.  A thread waits where the lock it
\* asks for is not free.
locksOther == <<now, rpm, limiter, attempts, stats, reqs, arrived, ck, ckCount,
                fb, fbCount, xl, sq, tk, ad, sh, bd>>

LkGoto(th, pc, event) ==
    [lk.th EXCEPT ![th].pc = pc, ![th].trace = Append(@, event)]

\* The threads waiting in self.buckets.write()
LkWaiting == {t \in LkThreads : lk.th[t].pc = "write"}

\* A thread calls check_key(key).
LkCall(th, key, policy) ==
    /\ lk.th[th].pc = "idle"
    /\ lk.calls < MaxLockCalls
    /\ lk.calls > 0 => policy = lk.policy
    /\ lk' = [lk EXCEPT !.calls = @ + 1, !.policy = policy,
                        !.th[th] = [pc |-> "read", key |-> key, trace |-> << >>]]
    /\ UNCHANGED <<buckets, locksOther>>

\* let map = self.buckets.read().unwrap(); map.get(api_key)
LkRead(th) ==
    /\ lk.th[th].pc = "read"
    /\ CanRead(lk.readers, lk.writer, LkWaiting, lk.policy)
    /\ lk' = [lk EXCEPT
            !.readers = @ \cup {th},
            !.th = LkGoto(th, IF lk.th[th].key \in DOMAIN buckets
                              THEN "lock" ELSE "miss", "map.read")]
    /\ UNCHANGED <<buckets, locksOther>>

\* let mut bucket = bucket_mutex.lock().unwrap(); bucket.try_consume(),
\* on the fast path and on the slow path
LkLockBucket(th) ==
    /\ lk.th[th].pc \in {"lock", "lockSlow"}
    /\ lk.mutex[lk.th[th].key] = 0
    /\ buckets' = [buckets EXCEPT ![lk.th[th].key] = TryConsume(@, now).bucket]
    /\ lk' = [lk EXCEPT
            !.mutex[lk.th[th].key] = th,
            !.th = LkGoto(th, IF lk.th[th].pc = "lock" THEN "unlock"
                              ELSE "unlockSlow", "bucket.lock")]
    /\ UNCHANGED locksOther

\* `bucket`, the MutexGuard, is dropped: the first of the locals to go
LkUnlockBucket(th) ==
    /\ lk.th[th].pc \in {"unlock", "unlockSlow"}
    /\ lk' = [lk EXCEPT
            !.mutex[lk.th[th].key] = 0,
            !.th = LkGoto(th, IF lk.th[th].pc = "unlock" THEN "unread"
                              ELSE "unwrite", "bucket.unlock")]
    /\ UNCHANGED <<buckets, locksOther>>

\* `map`, the read guard, is dropped and the fast path returns
LkUnread(th) ==
    /\ lk.th[th].pc = "unread"
    /\ lk' = [lk EXCEPT !.readers = @ \ {th},
                        !.th = LkGoto(th, "idle", "map.unread")]
    /\ UNCHANGED <<buckets, locksOther>>

\* The key has no bucket: the fast path's block ends
LkMiss(th) ==
    /\ lk.th[th].pc = "miss"
    /\ lk' = [lk EXCEPT !.readers = DropRead(@, th),
                        !.th = LkGoto(th, "write", "map.unread")]
    /\ UNCHANGED <<buckets, locksOther>>

\* let mut map = self.buckets.write().unwrap(); map.entry(..).or_insert_with(..)
LkWrite(th) ==
    /\ lk.th[th].pc = "write"
    /\ CanWrite(lk.readers, lk.writer)
    /\ buckets' = EntryOrInsert(buckets, lk.th[th].key, limiter, now)
    /\ lk' = [lk EXCEPT !.writer = th,
                        !.th = LkGoto(th, "lockSlow", "map.write")]
    /\ UNCHANGED locksOther

\* `map`, the write guard, is dropped and the slow path returns
LkUnwrite(th) ==
    /\ lk.th[th].pc = "unwrite"
    /\ lk' = [lk EXCEPT !.writer = 0,
                        !.th = LkGoto(th, "idle", "map.unwrite")]
    /\ UNCHANGED <<buckets, locksOther>>

\* The steps of a thread inside check_key
LkStep(th) ==
    \/ LkRead(th)
    \/ LkLockBucket(th)
    \/ LkUnlockBucket(th)
    \/ LkUnread(th)
    \/ LkMiss(th)
    \/ LkWrite(th)
    \/ LkUnwrite(th)

NextLocks ==
    \/ \E th \in LkThreads, key \in LimiterKeys, policy \in Policies :
          LkCall(th, key, policy)
    \/ \E th \in LkThreads : LkStep(th)

SpecLocks == Init /\ [][NextLocks]_vars

\* Every thread inside check_key is scheduled again and again.
SpecLocksFair == SpecLocks /\ \A th \in LkThreads : WF_vars(LkStep(th))


\* ------------------------------------------------------------ the shared tracker
\* The Arc<RwLock<RequestTracker>> of main.rs used by three threads at once:
\* Tracking's record_request and record_tokens under the write guard, statement
\* by statement, and get_stats under the read guard.  record_tokens takes
\* &mut self, which only the write guard of the RwLock gives.
sharedOther == <<now, rpm, limiter, buckets, attempts, reqs, arrived, ck,
                 ckCount, fb, fbCount, xl, sq, tk, ad, lk, bd>>

ShKey == "k1"

\* The calls made: record_request(k1, 7, is_error), record_tokens(k1, 3, 5,
\* model) and k1's own GET /stats
ShCalls ==
    {[NoSharedCall EXCEPT !.pc = "write", !.op = "record_request", !.key = ShKey,
                          !.latency_ms = 7, !.is_error = e] : e \in BOOLEAN}
    \cup {[NoSharedCall EXCEPT !.pc = "write", !.op = "record_tokens", !.key = ShKey,
                               !.prompt_tokens = 3, !.completion_tokens = 5,
                               !.model = m] : m \in TkModels}
    \cup {[NoSharedCall EXCEPT !.pc = "read", !.op = "get_stats", !.key = ShKey]}

\* The threads waiting in tracker.write()
ShWaiting == {t \in LkThreads : sh.th[t].pc = "write"}

ShGoto(th, pc) == [sh EXCEPT !.th[th].pc = pc]

\* A thread starts a call on the tracker.
ShCall(th, call, policy) ==
    /\ sh.th[th].pc = "idle"
    /\ sh.calls < MaxSharedCalls
    /\ sh.calls > 0 => policy = sh.policy
    /\ sh' = [sh EXCEPT !.calls = @ + 1, !.policy = policy, !.th[th] = call]
    /\ UNCHANGED <<stats, sharedOther>>

\* tracker.write().unwrap()
ShWrite(th) ==
    /\ sh.th[th].pc = "write"
    /\ CanWrite(sh.readers, sh.writer)
    /\ sh' = [sh EXCEPT !.writer = th, !.th[th].pc = "entry"]
    /\ UNCHANGED <<stats, sharedOther>>

\* self.stats.entry(api_key.to_string()).or_insert_with(KeyStats::new)
ShEntry(th) ==
    /\ sh.th[th].pc = "entry"
    /\ stats' = StatsEntry(stats, sh.th[th].key, SystemTimeNow(now, 0))
    /\ sh' = ShGoto(th, IF sh.th[th].op = "record_request"
                        THEN "request_count" ELSE "total_prompt_tokens")
    /\ UNCHANGED sharedOther

\* stats.request_count += 1
ShRequestCount(th) ==
    /\ sh.th[th].pc = "request_count"
    /\ stats' = [stats EXCEPT ![sh.th[th].key].request_count = @ + 1]
    /\ sh' = ShGoto(th, "total_latency_ms")
    /\ UNCHANGED sharedOther

\* stats.total_latency_ms += latency_ms
ShTotalLatency(th) ==
    /\ sh.th[th].pc = "total_latency_ms"
    /\ stats' = [stats EXCEPT ![sh.th[th].key].total_latency_ms =
                                  @ + sh.th[th].latency_ms]
    /\ sh' = ShGoto(th, "last_request_timestamp")
    /\ UNCHANGED sharedOther

\* stats.last_request_timestamp = SystemTime::now()
ShTimestamp(th) ==
    /\ sh.th[th].pc = "last_request_timestamp"
    /\ stats' = [stats EXCEPT ![sh.th[th].key].last_request_timestamp =
                                  SystemTimeNow(now, 0)]
    /\ sh' = ShGoto(th, IF sh.th[th].is_error THEN "error_count" ELSE "unwrite")
    /\ UNCHANGED sharedOther

\* if is_error { stats.error_count += 1 }
ShErrorCount(th) ==
    /\ sh.th[th].pc = "error_count"
    /\ stats' = [stats EXCEPT ![sh.th[th].key].error_count = @ + 1]
    /\ sh' = ShGoto(th, "unwrite")
    /\ UNCHANGED sharedOther

\* stats.total_prompt_tokens += prompt_tokens
ShPromptTokens(th) ==
    /\ sh.th[th].pc = "total_prompt_tokens"
    /\ stats' = [stats EXCEPT ![sh.th[th].key].total_prompt_tokens =
                                  @ + sh.th[th].prompt_tokens]
    /\ sh' = ShGoto(th, "total_completion_tokens")
    /\ UNCHANGED sharedOther

\* stats.total_completion_tokens += completion_tokens
ShCompletionTokens(th) ==
    /\ sh.th[th].pc = "total_completion_tokens"
    /\ stats' = [stats EXCEPT ![sh.th[th].key].total_completion_tokens =
                                  @ + sh.th[th].completion_tokens]
    /\ sh' = ShGoto(th, "models_used")
    /\ UNCHANGED sharedOther

\* *stats.models_used.entry(model.to_string()).or_insert(0) += 1
ShModelsUsed(th) ==
    /\ sh.th[th].pc = "models_used"
    /\ stats' = [stats EXCEPT ![sh.th[th].key].models_used =
                                  ModelsUsedIncr(@, sh.th[th].model)]
    /\ sh' = ShGoto(th, "unwrite")
    /\ UNCHANGED sharedOther

\* The write guard, a temporary of the statement, is dropped.
ShUnwrite(th) ==
    /\ sh.th[th].pc = "unwrite"
    /\ LET c == sh.th[th]
           r == c.op = "record_request"
       IN  sh' = [sh EXCEPT
                !.writer = 0,
                !.whole = stats,
                !.done = [requests |-> @.requests + (IF r THEN 1 ELSE 0),
                          errors |-> @.errors + (IF r /\ c.is_error THEN 1 ELSE 0),
                          latency_ms |-> @.latency_ms + c.latency_ms,
                          tokenCalls |-> @.tokenCalls + (IF r THEN 0 ELSE 1),
                          prompt_tokens |-> @.prompt_tokens + c.prompt_tokens,
                          completion_tokens |->
                              @.completion_tokens + c.completion_tokens],
                !.th[th].pc = "idle"]
    /\ UNCHANGED <<stats, sharedOther>>

\* let tracker_guard = tracker.read().unwrap()
ShRead(th) ==
    /\ sh.th[th].pc = "read"
    /\ CanRead(sh.readers, sh.writer, ShWaiting, sh.policy)
    /\ sh' = [sh EXCEPT !.readers = @ \cup {th}, !.th[th].pc = "get"]
    /\ UNCHANGED <<stats, sharedOther>>

\* get_stats builds its answer from the tracker behind the read guard
ShGet(th) ==
    /\ sh.th[th].pc = "get"
    /\ LET ext == Some(ValidatedApiKey(sh.th[th].key, "User"))
       IN  sh' = [sh EXCEPT
                !.th[th].pc = "unread",
                !.th[th].seen = Some(GetStats(ext, None, stats)),
                !.th[th].unbroken = Some(GetStats(ext, None, sh.whole))]
    /\ UNCHANGED <<stats, sharedOther>>

\* get_stats returns: tracker_guard is dropped
ShUnread(th) ==
    /\ sh.th[th].pc = "unread"
    /\ sh' = [sh EXCEPT !.readers = DropRead(@, th), !.th[th].pc = "idle"]
    /\ UNCHANGED <<stats, sharedOther>>

NextShared ==
    \/ \E th \in LkThreads, call \in ShCalls, policy \in Policies :
          ShCall(th, call, policy)
    \/ \E th \in LkThreads :
          \/ ShWrite(th)
          \/ ShEntry(th)
          \/ ShRequestCount(th)
          \/ ShTotalLatency(th)
          \/ ShTimestamp(th)
          \/ ShErrorCount(th)
          \/ ShPromptTokens(th)
          \/ ShCompletionTokens(th)
          \/ ShModelsUsed(th)
          \/ ShUnwrite(th)
          \/ ShRead(th)
          \/ ShGet(th)
          \/ ShUnread(th)

SpecShared == Init /\ [][NextShared]_vars


\* ------------------------------------------------------------ the streaming response body
\* Streaming chat requests through the pipeline, and after each response has
\* left it the server sending its body: HttpResponse::streaming stores
\* sse_stream in the response, and the stream runs when the server polls the
\* body, read by read, until the upstream ends or fails.
BodyHeaders == {TextHeader("Bearer k1"), TextHeader("Bearer zz")}

StreamBodies ==
    { ChatCompletionRequest("m1", <<[role |-> "user", content |-> "hi"]>>,
                            Some(TRUE)) }

\* What the backend may do with the streaming call: the POST fails; or it is
\* answered and the byte stream gives its reads and ends, or gives its
\* reads and then an Err (msg)
BodyAnswers ==
    { BackendAnswer(FALSE, 0, FALSE, NoData, << >>, "connection refused"),
      BackendAnswer(TRUE, 200, FALSE, NoData, <<"{a}\n", "{!p3e2}\n">>, ""),
      BackendAnswer(TRUE, 200, FALSE, NoData, <<"{a}\n">>, "connection reset"),
      BackendAnswer(TRUE, 200, FALSE, NoData, << >>, "connection reset") }

\* The response of the connection's request is a streaming one.
Streams(req) ==
    /\ req.pc = "done"
    /\ req.result.val.kind = "ok"
    /\ req.result.val.text = "text/event-stream"

\* The server accepts a chat request once the connection's last response,
\* body included, has been sent.
BdArrive(s, h) ==
    /\ Streams(reqs[s]) => bd.req = arrived /\ bd.pc = "sent"
    /\ Arrive(s, "chat", h)

\* The router dispatches to chat_completions, which answers.
BdHandlerCall(s) ==
    /\ reqs[s].pc = "call"
    /\ reqs[s].layer = HandlerLayer
    /\ \E request \in StreamBodies, answer \in BodyAnswers :
          reqs' = [reqs EXCEPT ![s] =
              Returning([reqs[s] EXCEPT !.trace = Append(@, "Handler"),
                                        !.body = request, !.answer = answer],
                        ChatCompletions(request, answer), Len(Pipeline))]
    /\ UNCHANGED <<now, rpm, limiter, buckets, attempts, stats, arrived, ck, ckCount, fb, fbCount, xl, sq, tk, ad, lk, sh, bd>>

bodyOther == <<now, rpm, limiter, buckets, attempts, reqs, arrived, ck, ckCount,
               fb, fbCount, xl, sq, tk, ad, lk, sh>>

\* The response has left the pipeline and the server turns to its body:
\* let mut stream = ollama_response.bytes_stream()
BdSend(s) ==
    /\ Streams(reqs[s])
    /\ bd.req # arrived
    /\ bd' = [pc |-> "sending", req |-> arrived, rest |-> reqs[s].answer.reads,
              broken |-> reqs[s].answer.msg # "", out |-> << >>,
              failed |-> FALSE, atSend |-> stats]
    /\ UNCHANGED <<stats, bodyOther>>

\* stream.next() gives Some(Ok(bytes)): the lines of the read are translated
BdPoll ==
    /\ bd.pc = "sending"
    /\ bd.rest # << >>
    /\ bd' = [bd EXCEPT !.rest = Tail(@),
                        !.out = @ \o HandlerTranslateReads(<<Head(bd.rest)>>)]
    /\ UNCHANGED <<stats, bodyOther>>

\* stream.next() gives Some(Err(e)): "Stream error" is logged, break, and the
\* [DONE] frame after the loop ends the body
BdUpstreamErr ==
    /\ bd.pc = "sending"
    /\ bd.rest = << >> /\ bd.broken
    /\ bd' = [bd EXCEPT !.pc = "sent", !.failed = TRUE,
                        !.out = Append(@, "data: [DONE]\n\n")]
    /\ UNCHANGED <<stats, bodyOther>>

\* stream.next() gives None: the [DONE] frame after the loop ends the body
BdUpstreamEnd ==
    /\ bd.pc = "sending"
    /\ bd.rest = << >> /\ ~bd.broken
    /\ bd' = [bd EXCEPT !.pc = "sent", !.out = Append(@, "data: [DONE]\n\n")]
    /\ UNCHANGED <<stats, bodyOther>>

NextBody ==
    \/ \E s \in Slots, h \in BodyHeaders : BdArrive(s, h)
    \/ \E s \in Slots : AuthCall(s)
    \/ \E s \in Slots : RateLimitCall(s)
    \/ \E s \in Slots : RateLimitSlow(s)
    \/ \E s \in Slots : TrackingCall(s)
    \/ \E s \in Slots : BdHandlerCall(s)
    \/ \E s \in Slots : TrackingReturn(s)
    \/ \E s \in Slots : BdSend(s)
    \/ BdPoll
    \/ BdUpstreamErr
    \/ BdUpstreamEnd
    \/ Tick

SpecBody == Init /\ [][NextBody]_vars


\* ============================================================ claims
IsLayer(e) == e \in {"Auth", "RateLimit", "Tracking", "Handler"}
IsPrefix(a, b) == Len(a) <= Len(b) /\ SubSeq(b, 1, Len(a)) = a
Occurs(tr, e) == \E i \in 1..Len(tr) : tr[i] = e
Before(tr, a, b) == \E i, j \in 1..Len(tr) : i < j /\ tr[i] = a /\ tr[j] = b

\* C1: every request passes the layers in the order Auth, RateLimit, Tracking,
\* handler: the layers it has entered are a prefix of that order, check_key has
\* answered for it only after Auth attached a caller, and Tracking has started
\* only after the rate limiter let it pass (check_key answered true).
C1_LayerOrder ==
    \A s \in Slots :
        LET req == reqs[s]
        IN  /\ IsPrefix(SelectSeq(req.trace, IsLayer),
                        <<"Auth", "RateLimit", "Tracking", "Handler">>)
            /\ req.checked.some =>
                    /\ Occurs(req.trace, "RateLimit")
                    /\ req.trace[1] = "Auth"
                    /\ req.ext.some
            /\ Occurs(req.trace, "Tracking") =>
                    /\ Before(req.trace, "RateLimit", "Tracking")
                    /\ req.checked = Some(TRUE)
            /\ req.pc = "slow" => req.trace = <<"Auth">> /\ req.ext.some

C1_Witness ==
    \E s \in Slots :
        /\ reqs[s].pc = "done"
        /\ reqs[s].checked = Some(TRUE)
        /\ reqs[s].trace = <<"Auth", "RateLimit", "Tracking", "Handler", "record">>

\* C2: Auth decides from the Authorization header alone.  Header "Bearer "
\* followed by exactly an admin key: caller {key, Admin} attached (also for a
\* key that is a user key too); followed by exactly a user key: {key, User};
\* anything else: 401 'Invalid or missing API key', nothing attached and no
\* inner layer entered.
AdminKeySet == {admin_keys[i] : i \in 1..Len(admin_keys)}
UserKeySet == {api_keys[i] : i \in 1..Len(api_keys)}
BearerOf(keys) == {TextHeader("Bearer " \o k) : k \in keys}
Unauthorized == Response("err", 401, "Invalid or missing API key", << >>)

C2_AuthDecision ==
    \A s \in Slots :
        LET req == reqs[s]
        IN  Occurs(req.trace, "Auth") =>
              IF req.header \in BearerOf(AdminKeySet)
              THEN /\ req.ext.some
                   /\ req.ext.val.role = "Admin"
                   /\ req.header = TextHeader("Bearer " \o req.ext.val.key)
                   /\ req.result # Some(Unauthorized)
              ELSE IF req.header \in BearerOf(UserKeySet)
              THEN /\ req.ext.some
                   /\ req.ext.val.role = "User"
                   /\ req.header = TextHeader("Bearer " \o req.ext.val.key)
                   /\ req.result # Some(Unauthorized)
              ELSE /\ req.ext = None
                   /\ req.result = Some(Unauthorized)
                   /\ req.pc = "done"
                   /\ req.trace = <<"Auth">>

\* A key that is in both lists has been given the Admin role and passed on.
C2_Witness ==
    \E s \in Slots :
        /\ reqs[s].header = TextHeader("Bearer a1")
        /\ reqs[s].ext = Some(ValidatedApiKey("a1", "Admin"))
        /\ Occurs(reqs[s].trace, "RateLimit")
        /\ "a1" \in UserKeySet

\* C3: a GET /v1/health without an Authorization header is answered 200 'ok'.
C3_HealthBypassesAuth ==
    \A s \in Slots :
        (reqs[s].route = "health" /\ reqs[s].header = NoHeader /\ reqs[s].pc = "done")
            => /\ reqs[s].result.val.status = 200
               /\ reqs[s].result.val.text = "ok"


\* The attempts of one key, in the order the bucket's lock serialised them.
KeyLog(k) == LET OfKey(a) == a.key = k IN SelectSeq(attempts, OfKey)

\* The number of attempts of key k admitted at an instant in t1..t2.
Admitted(k, t1, t2) ==
    Cardinality({i \in 1..Len(attempts) :
                    /\ attempts[i].key = k
                    /\ attempts[i].ok
                    /\ t1 <= attempts[i].t
                    /\ attempts[i].t <= t2})

\* C4: for one key and any window [t1, t2], the number N of admitted requests
\* satisfies N <= capacity + W * refill_rate with capacity = R tokens and
\* refill_rate = R/60 tokens per second, W = (t2 - t1) * 60/TicksPerMinute
\* seconds; multiplied by TicksPerMinute:
\*   N * TicksPerMinute <= R * TicksPerMinute + (t2 - t1) * R.
C4_AdmissionBound ==
    \A k \in LimiterKeys : \A t1 \in 0..now : \A t2 \in t1..now :
        Admitted(k, t1, t2) * TicksPerMinute
            <= rpm * TicksPerMinute + (t2 - t1) * rpm

\* A window of positive length in which a key was admitted exactly
\* capacity + W * refill_rate times, while two calls were in flight at once.
C4_Witness ==
    \E k \in LimiterKeys : \E t1 \in 0..now : \E t2 \in (t1 + 1)..now :
        /\ Admitted(k, t1, t2) * TicksPerMinute
              = rpm * TicksPerMinute + (t2 - t1) * rpm
        /\ Admitted(k, t2, t2) > 0
        /\ \A th \in Threads : ck[th].ret.some

\* C5: every bucket holds 0 <= tokens <= capacity.
C5_TokensInRange ==
    \A k \in DOMAIN buckets :
        /\ 0 <= buckets[k].tokens
        /\ buckets[k].tokens <= buckets[k].capacity
        /\ buckets[k].capacity = rpm * OneToken

\* A bucket that has seen a denied attempt, then time passing, then an
\* admitted one, and is empty.
C5_Witness ==
    \E k \in DOMAIN buckets :
        /\ buckets[k].tokens = 0
        /\ \E i, j \in 1..Len(KeyLog(k)) :
              /\ i < j
              /\ ~KeyLog(k)[i].ok
              /\ KeyLog(k)[j].ok
              /\ KeyLog(k)[i].t < KeyLog(k)[j].t

\* C6: for a key seen for the first time, of the attempts made at the instant
\* of the first one exactly the first R are admitted; and after an admitted
\* attempt left the bucket empty at instant te, the first attempt made
\* 60/R seconds or more after te is admitted, whatever was attempted (and
\* denied) in between.  (t - te ticks are >= 60/R seconds iff
\* (t - te) * R >= TicksPerMinute.)
C6_BurstThenRefill ==
    \A k \in LimiterKeys :
        LET L == KeyLog(k)
            Late(i, j) == (L[j].t - L[i].t) * rpm >= TicksPerMinute
        IN  /\ \A i \in 1..Len(L) :
                  (\A j \in 1..i : L[j].t = L[1].t) => (L[i].ok <=> i <= rpm)
            /\ \A i \in 1..Len(L) : \A j \in (i + 1)..Len(L) :
                  ( /\ L[i].ok
                    /\ L[i].tokens = 0
                    /\ Late(i, j)
                    /\ \A m \in (i + 1)..(j - 1) : ~Late(i, m) )
                  => L[j].ok

\* R = 2: two admitted and a third denied at one instant, and one more
\* admitted 30 seconds later.
C6_Witness ==
    /\ rpm = 2
    /\ \E k \in LimiterKeys :
          LET L == KeyLog(k)
          IN  /\ Len(L) = 4
              /\ L[1].ok /\ L[2].ok /\ ~L[3].ok /\ L[4].ok
              /\ L[2].t = L[1].t /\ L[3].t = L[1].t
              /\ (L[4].t - L[1].t) * 60 = 30 * TicksPerMinute

\* C7: a request for which check_key answered false is answered 429 'Rate
\* limit exceeded', enters neither Tracking nor the handler, and leaves the
\* tracker as it was when the request arrived.
TooManyRequests == Response("err", 429, "Rate limit exceeded", << >>)

C7_DeniedLeavesNoTrace ==
    \A s \in Slots :
        LET req == reqs[s]
        IN  /\ req.checked = Some(FALSE) =>
                  /\ req.pc = "done"
                  /\ req.result = Some(TooManyRequests)
                  /\ req.trace = <<"Auth", "RateLimit">>
                  /\ stats = req.stats0
            /\ (req.result.some /\ req.result.val.status = 429) =>
                  req.checked = Some(FALSE)

\* A denied request of a key whose earlier request the tracker has recorded.
C7_Witness ==
    \E s \in Slots :
        /\ reqs[s].checked = Some(FALSE)
        /\ reqs[s].pc = "done"
        /\ reqs[s].ext.some
        /\ reqs[s].ext.val.key \in DOMAIN stats
        /\ stats[reqs[s].ext.val.key].request_count = 1


\* C8: chat calls the primary first and once; a primary that succeeds is
\* answered with and the backup is not called; after any error of the primary
\* the backup is called once and its answer, success or error, is the result;
\* so a chat makes at most two backend calls.
C8_OneFallbackHop ==
    fb.op = "chat" =>
        /\ Len(fb.calls) \in {1, 2}
        /\ fb.calls[1].to = "primary" /\ fb.calls[1].op = "chat"
        /\ Len(fb.calls) = 2 =>
              fb.calls[2].to = "backup" /\ fb.calls[2].op = "chat"
        /\ Len(fb.returns) = 0 => Len(fb.calls) = 1 /\ fb.result = None
        /\ Len(fb.returns) >= 1 =>
              /\ fb.returns[1].from = "primary"
              /\ IF fb.returns[1].outcome.ok
                 THEN /\ Len(fb.calls) = 1
                      /\ fb.result = Some(fb.returns[1].outcome)
                 ELSE /\ Len(fb.calls) = 2
                      /\ Len(fb.returns) = 1 => fb.result = None
                      /\ Len(fb.returns) = 2 =>
                            /\ fb.returns[2].from = "backup"
                            /\ fb.result = Some(fb.returns[2].outcome)
        /\ Len(fb.returns) <= 2

\* Both backends failed, differently, and the backup's error is the result.
C8_Witness ==
    /\ fb.op = "chat"
    /\ Len(fb.returns) = 2
    /\ fb.returns[1].outcome.kind = "ProviderError"
    /\ fb.returns[2].outcome.kind = "Parse"
    /\ fb.result = Some(Err("Parse", 0, "bad json"))

\* C9: the primary is given the original request; the backup is given the
\* original request with model replaced by fallback_model if one is
\* configured, messages and stream as they were.
C9_BackupRequest ==
    fb.op = "chat" =>
        \A i \in 1..Len(fb.calls) :
            LET c == fb.calls[i]
            IN  /\ c.to = "primary" => c.request = fb.request
                /\ c.to = "backup" =>
                      /\ c.request.messages = fb.request.messages
                      /\ c.request.stream = fb.request.stream
                      /\ c.request.model =
                            IF fb.fallback_model.some
                            THEN fb.fallback_model.val
                            ELSE fb.request.model

\* A streaming-flagged request for m1 with a message went to the backup as fb.
C9_Witness ==
    /\ fb.op = "chat"
    /\ fb.request = ChatCompletionRequest("m1",
            <<[role |-> "user", content |-> "hi"]>>, Some(TRUE))
    /\ Len(fb.calls) = 2
    /\ fb.calls[2] = ProviderCall("backup", "chat",
            ChatCompletionRequest("fb",
                <<[role |-> "user", content |-> "hi"]>>, Some(TRUE)))

\* C10: chat_stream calls the primary only, with the request as given, and
\* answers what the primary answered, also when that is an error.
C10_StreamPrimaryOnly ==
    fb.op = "chat_stream" =>
        /\ fb.calls = <<ProviderCall("primary", "chat_stream", fb.request)>>
        /\ Len(fb.returns) = 0 => fb.result = None
        /\ Len(fb.returns) >= 1 =>
              /\ fb.result.some
              /\ fb.returns = <<[from |-> "primary", outcome |-> fb.result.val]>>

\* The primary could not establish the stream and its error is the result.
C10_Witness ==
    /\ fb.op = "chat_stream"
    /\ fb.pc = "ready"
    /\ fb.result = Some(Err("Network", 0, "connection refused"))

\* The chunk frames of a finished output stream: all frames but the last.
ChunkFrames == SubSeq(xl.out, 1, Len(xl.out) - 1)

\* What the upstream has delivered so far, and its lines.
Delivered == SubSeq(xl.body, 1, Len(xl.body) - Len(xl.rest))
IsStop(frame) == frame # DoneFrame /\ frame.json.finish_reason = Some("stop")

\* C11: an output stream of the translator that has ended holds the frame
\* 'data: [DONE]\n\n' exactly once, as its last item, whether the upstream
\* ended or failed mid-flight; before the end no [DONE] has been emitted.
C11_DoneOnceAndLast ==
    /\ xl.pc = "done" =>
          /\ Len(xl.out) >= 1
          /\ xl.out[Len(xl.out)] = DoneFrame
          /\ \A i \in 1..(Len(xl.out) - 1) : xl.out[i] # DoneFrame
    /\ xl.pc = "streaming" => \A i \in 1..Len(xl.out) : xl.out[i] # DoneFrame

\* The upstream failed with bytes still to come, after a chunk was emitted.
C11_Witness ==
    /\ xl.pc = "done"
    /\ xl.failed
    /\ xl.rest # ""
    /\ Len(xl.out) >= 2
    /\ xl.out[Len(xl.out)] = DoneFrame

\* C12: in a finished output stream whose upstream reported done=true (a
\* delivered line says so), finish_reason = "stop" is in exactly one chunk,
\* the frame right before 'data: [DONE]'.
C12_StopOnceBeforeDone ==
    (/\ xl.pc = "done"
     /\ \E i \in 1..Len(StrLines(Delivered)) :
            LET c == OllamaStreamChunk(StrLines(Delivered)[i])
            IN  c.some /\ c.val.done)
        => /\ Len(xl.out) >= 2
           /\ IsStop(xl.out[Len(xl.out) - 1])
           /\ \A i \in 1..(Len(xl.out) - 2) : ~IsStop(xl.out[i])

\* The upstream lines that parse and are not (empty content and done=false).
Survives(line) ==
    /\ ~TrimIsEmpty(line)
    /\ OllamaStreamChunk(line).some
    /\ ~(OllamaStreamChunk(line).val.content = ""
         /\ ~OllamaStreamChunk(line).val.done)

\* C13: when the upstream ended normally, the chunk frames are, one per line
\* and in order, the images of the upstream lines that parse and are not
\* (empty content and done=false): delta.content is the line's content,
\* finish_reason is "stop" iff done, usage is present iff done and holds the
\* terminal counts, an absent count being zero.
C13_FramesAreLineImages ==
    (xl.pc = "done" /\ ~xl.failed) =>
        LET lines == SelectSeq(StrLines(xl.body), Survives)
        IN  /\ Len(ChunkFrames) = Len(lines)
            /\ \A i \in 1..Len(lines) :
                  LET c == OllamaStreamChunk(lines[i]).val
                      f == ChunkFrames[i].json
                  IN  /\ f.delta.content = c.content
                      /\ (f.finish_reason = Some("stop")) <=> c.done
                      /\ ~c.done => f.finish_reason = None
                      /\ f.usage.some <=> c.done
                      /\ c.done =>
                            /\ f.usage.val.prompt_tokens
                                  = UnwrapOr(c.prompt_eval_count, 0)
                            /\ f.usage.val.completion_tokens
                                  = UnwrapOr(c.eval_count, 0)

\* C14: for a fixed upstream byte sequence the emitted frames do not depend
\* on how the network cut it into reads: they are those of the sequence
\* arriving in one read.
C14_ReadsDoNotMatter ==
    (xl.pc = "done" /\ ~xl.failed) =>
        xl.out = Append(TranslateRead(xl.body), DoneFrame)

\* The token counters of key in tracker st (zero without an entry), and how
\* many responses st attributes to model under key.
TokensOf(st, key) ==
    IF key \in DOMAIN st
    THEN <<st[key].total_prompt_tokens, st[key].total_completion_tokens>>
    ELSE <<0, 0>>

ModelCount(st, key, model) ==
    IF key \in DOMAIN st /\ model \in DOMAIN st[key].models_used
    THEN st[key].models_used[model]
    ELSE 0

\* A chat request the handler has answered and that has left the pipeline.
ChatDone(req) ==
    /\ req.route = "chat"
    /\ req.pc = "done"
    /\ Occurs(req.trace, "Handler")

\* C15: a non-streaming chat request whose backend call succeeded is answered
\* 200 and has added the response's prompt and completion counts to the
\* caller's token totals and one to the caller's count for the response's
\* model; after a failed backend call the caller's tokens are as before.
C15_TokensRecordedOnce ==
    \A s \in Slots :
        LET req == reqs[s]
            key == req.ext.val.key
        IN  (ChatDone(req) /\ ~UnwrapOr(req.body.stream, FALSE)) =>
              IF req.answer.sent /\ req.answer.parses
              THEN /\ req.result.val.status = 200
                   /\ TokensOf(stats, key)
                        = <<TokensOf(req.stats0, key)[1]
                               + req.answer.data.prompt_eval_count,
                            TokensOf(req.stats0, key)[2]
                               + req.answer.data.eval_count>>
                   /\ ModelCount(stats, key, req.answer.data.model)
                        = ModelCount(req.stats0, key, req.answer.data.model) + 1
              ELSE /\ TokensOf(stats, key) = TokensOf(req.stats0, key)

\* The terminal chunks among the lines of the reads: those that say done.
RECURSIVE Concat(_)
Concat(reads) ==
    IF reads = << >> THEN "" ELSE Head(reads) \o Concat(Tail(reads))

TerminalChunks(reads) ==
    LET lines == StrLines(Concat(reads))
    IN  {OllamaStreamChunk(lines[i]).val : i \in
            {j \in 1..Len(lines) : /\ OllamaStreamChunk(lines[j]).some
                                   /\ OllamaStreamChunk(lines[j]).val.done}}

\* C16: a streaming chat request whose stream was established is answered with
\* exactly the items the backend stream produced, unchanged and in order,
\* whether or not they parse; and the usage of a terminal chunk that passed
\* through is added to the caller's token totals.
C16_StreamForwardedAndCounted ==
    \A s \in Slots :
        LET req == reqs[s]
            key == req.ext.val.key
        IN  (ChatDone(req) /\ UnwrapOr(req.body.stream, FALSE) /\ req.answer.sent) =>
              /\ req.result.val.status = 200
              /\ req.result.val.json = req.answer.reads
              /\ \A c \in TerminalChunks(req.answer.reads) :
                    TokensOf(stats, key)
                      = <<TokensOf(req.stats0, key)[1]
                             + UnwrapOr(c.prompt_eval_count, 0),
                          TokensOf(req.stats0, key)[2]
                             + UnwrapOr(c.eval_count, 0)>>

\* C17: the handler answers a backend Network error with 502 'Provider
\* unavailable: <msg>', a backend answer that is not 2xx with that status, and
\* an undecodable 2xx body with 500 'Failed to parse response: <msg>'; the
\* adapters report an answer that is not 2xx as the Upstream error
\* (ProviderError::ProviderError with that status), not as Parse or success.
C17_BackendErrorMapping ==
    \A s \in Slots :
        LET req == reqs[s]
            a == req.answer
            res == req.result.val
        IN  ChatDone(req) =>
              /\ ~a.sent =>
                    /\ res.status = 502
                    /\ res.text = "Provider unavailable: " \o a.msg
              /\ (a.sent /\ a.status \notin 200..299) =>
                    /\ res.status = a.status
                    /\ OllamaChat(a).kind = "ProviderError"
                    /\ OllamaChat(a).status = a.status
                    /\ OpenAIChat(a).kind = "ProviderError"
                    /\ OpenAIChat(a).status = a.status
              /\ (a.sent /\ a.status \in 200..299 /\ ~a.parses
                    /\ ~UnwrapOr(req.body.stream, FALSE)) =>
                    /\ res.status = 500
                    /\ res.text = "Failed to parse response: " \o a.msg

\* a is the masked form of key k: '***' for a key of at most 8 characters,
\* else its first four characters, '***', its last four characters.
IsMaskOf(a, k) ==
    IF Len(k) <= 8 THEN a = "***"
    ELSE /\ Len(a) = 11
         /\ SubSeq(a, 1, 4) = SubSeq(k, 1, 4)
         /\ SubSeq(a, 5, 7) = "***"
         /\ SubSeq(a, 8, 11) = SubSeq(k, Len(k) - 3, Len(k))

\* Entry e of a stats response shows the statistics ks of key k.
EntryShows(e, k, ks) ==
    /\ IsMaskOf(e.api_key, k)
    /\ e.request_count = ks.request_count
    /\ e.error_count = ks.error_count
    /\ e.total_latency_ms = ks.total_latency_ms
    /\ e.total_prompt_tokens = ks.total_prompt_tokens
    /\ e.total_completion_tokens = ks.total_completion_tokens
    /\ e.models_used = ks.models_used

\* Two trackers agree on the entry of key k.
AgreeOn(a, b, k) ==
    /\ k \in DOMAIN a <=> k \in DOMAIN b
    /\ k \in DOMAIN a => a[k] = b[k]

\* C18: a User calling GET /v1/stats is answered 200 with one entry, their
\* own: the statistics of their key whatever ?key= says, or all counters zero
\* under their masked key if the tracker has no entry for them (never 404);
\* and on two trackers that agree on the caller's entry the answers are the
\* same, whatever the two ?key= parameters and the other keys' entries are.
C18_UserSeesOnlyOwnStats ==
    (sq.pc = "done" /\ sq.ext.some /\ sq.ext.val.role = "User") =>
        LET key == sq.ext.val.key
            res == sq.res.val
        IN  /\ res.status = 200
            /\ Len(res.json) = 1
            /\ IsMaskOf(res.json[1].api_key, key)
            /\ key \in DOMAIN stats => EntryShows(res.json[1], key, stats[key])
            /\ key \notin DOMAIN stats =>
                  /\ res.json[1].request_count = 0
                  /\ res.json[1].error_count = 0
                  /\ res.json[1].total_latency_ms = 0
                  /\ res.json[1].total_prompt_tokens = 0
                  /\ res.json[1].total_completion_tokens = 0
                  /\ DOMAIN res.json[1].models_used = {}
            /\ AgreeOn(stats, sq.other, key) => sq.res = sq.resOther

\* A user with an entry asks for another key that has an entry too; the two
\* trackers differ, but not on the caller, and the ?key= parameters differ.
C18_Witness ==
    /\ sq.pc = "done" /\ sq.ext.some /\ sq.ext.val.role = "User"
    /\ sq.ext.val.key \in DOMAIN stats
    /\ sq.query.some /\ sq.query.val \in DOMAIN stats
    /\ sq.query.val # sq.ext.val.key
    /\ sq.query # sq.queryOther
    /\ stats # sq.other
    /\ AgreeOn(stats, sq.other, sq.ext.val.key)

\* C19: an Admin calling GET /v1/stats with key=k is answered with k's
\* statistics if the tracker has an entry for k and with 404 'No stats for
\* that key' if not; without a key the answer lists one entry per key of the
\* tracker and nothing else.
C19_AdminStats ==
    (sq.pc = "done" /\ sq.ext.some /\ sq.ext.val.role = "Admin") =>
        LET res == sq.res.val
        IN  IF sq.query.some
            THEN IF sq.query.val \in DOMAIN stats
                 THEN /\ res.status = 200
                      /\ Len(res.json) = 1
                      /\ EntryShows(res.json[1], sq.query.val, stats[sq.query.val])
                 ELSE /\ res.status = 404
                      /\ res.text = "No stats for that key"
                      /\ res.json = << >>
            ELSE /\ res.status = 200
                 /\ Len(res.json) = Cardinality(DOMAIN stats)
                 /\ \E f \in [1..Len(res.json) -> DOMAIN stats] :
                       /\ \A i, j \in 1..Len(res.json) : f[i] = f[j] => i = j
                       /\ \A i \in 1..Len(res.json) :
                             EntryShows(res.json[i], f[i], stats[f[i]])

\* An admin has listed a tracker of two keys with different statistics.
C19_Witness ==
    /\ sq.pc = "done" /\ sq.ext.some /\ sq.ext.val.role = "Admin"
    /\ ~sq.query.some
    /\ Len(sq.res.val.json) = 2
    /\ sq.res.val.json[1].request_count # sq.res.val.json[2].request_count

\* The keys whose statistics an answered call shows.
ShownKeys ==
    IF sq.ext.val.role = "User" THEN {sq.ext.val.key}
    ELSE IF sq.query.some THEN {sq.query.val}
    ELSE DOMAIN stats

\* C20: every api_key of a stats response is masked: '***' for a key of at
\* most 8 characters, first four + '***' + last four for a longer one; no
\* response holds a full key of more than 8 characters.
C20_KeysMasked ==
    (sq.pc = "done" /\ sq.res.val.status = 200) =>
        \A i \in 1..Len(sq.res.val.json) :
            /\ \E k \in ShownKeys : IsMaskOf(sq.res.val.json[i].api_key, k)
            /\ Cardinality({k \in ShownKeys : Len(k) <= 8})
                  = Cardinality({j \in 1..Len(sq.res.val.json) :
                                    sq.res.val.json[j].api_key = "***"})
            /\ \A k \in TrackerKeys :
                  Len(k) > 8 => sq.res.val.json[i].api_key # k

\* An admin's list shows a key of 8 characters as '***' and one of 9
\* characters by its ends.
C20_Witness ==
    /\ sq.pc = "done" /\ sq.res.val.status = 200
    /\ DOMAIN stats = {"user-008", "user-0009"}
    /\ {sq.res.val.json[i].api_key : i \in 1..Len(sq.res.val.json)}
          = {"***", "user***0009"}

\* ------------------------------------------------------------ C21..C30
\* The counters of a KeyStats
CounterFields ==
    {"request_count", "error_count", "total_latency_ms",
     "total_prompt_tokens", "total_completion_tokens"}

CounterOf(ks, f) ==
    CASE f = "request_count" -> ks.request_count
      [] f = "error_count" -> ks.error_count
      [] f = "total_latency_ms" -> ks.total_latency_ms
      [] f = "total_prompt_tokens" -> ks.total_prompt_tokens
      [] OTHER -> ks.total_completion_tokens

\* C21: while the process runs, no tracker call removes a key, lowers one of
\* a key's five counters, or removes or lowers one of its models_used counts.
C21_CountersNeverDecrease ==
    [][(tk.pc = "running" /\ tk'.pc = "running") =>
          \A k \in DOMAIN stats :
              /\ k \in DOMAIN stats'
              /\ \A f \in CounterFields :
                    CounterOf(stats'[k], f) >= CounterOf(stats[k], f)
              /\ \A m \in DOMAIN stats[k].models_used :
                    /\ m \in DOMAIN stats'[k].models_used
                    /\ stats'[k].models_used[m] >= stats[k].models_used[m]]_vars

\* A key on which record_tokens and then record_request were made, the
\* other key being in the tracker too.
C21_Witness ==
    /\ tk.pc = "running" /\ tk.restarts = 0
    /\ DOMAIN stats = TkKeys
    /\ \E k \in TkKeys :
          /\ stats[k].request_count = 1
          /\ stats[k].total_prompt_tokens = 3
          /\ stats[k].models_used = [m \in {"m1"} |-> 1]

\* A step that makes a record_tokens call
TokensStep == tk'.n = tk.n + 1 /\ tk'.op.kind = "tokens"

\* The KeyStats a key that is not in the tracker counts as: all counters
\* zero, no model, no timestamp (the epoch).
ZeroKeyStats == KeyStatsNew(0)

KeyStatsIn(st, key) == IF key \in DOMAIN st THEN st[key] ELSE ZeroKeyStats

ModelCountIn(ks, model) ==
    IF model \in DOMAIN ks.models_used THEN ks.models_used[model] ELSE 0

\* What record_tokens(key, 3, 5, model) does to the tracker, the key's
\* last_request_timestamp left aside: it adds 3 and 5 to the key's token
\* totals and one to models_used[model], and changes no other model count,
\* no request_count, error_count or total_latency_ms, and no other key.
TokensFrame(before, after, key, model) ==
    /\ DOMAIN after = DOMAIN before \cup {key}
    /\ \A k \in DOMAIN before : k # key => after[k] = before[k]
    /\ LET old == KeyStatsIn(before, key)
           new == after[key]
       IN  /\ new.total_prompt_tokens = old.total_prompt_tokens + 3
           /\ new.total_completion_tokens = old.total_completion_tokens + 5
           /\ DOMAIN new.models_used = DOMAIN old.models_used \cup {model}
           /\ \A m \in DOMAIN new.models_used :
                 new.models_used[m] = ModelCountIn(old, m)
                                         + (IF m = model THEN 1 ELSE 0)
           /\ new.request_count = old.request_count
           /\ new.error_count = old.error_count
           /\ new.total_latency_ms = old.total_latency_ms

\* C22: record_tokens(key, p, c, model) adds p and c to the key's token
\* totals and one to models_used[model] and changes nothing else: not the
\* key's request_count, error_count, total_latency_ms or
\* last_request_timestamp, and no other key; on the first touch of a key the
\* entry it creates is zeroed and has no timestamp set.
C22_RecordTokensFrame ==
    [][TokensStep =>
          /\ TokensFrame(stats, stats', tk'.op.key, tk'.op.model)
          /\ stats'[tk'.op.key].last_request_timestamp
                = KeyStatsIn(stats, tk'.op.key).last_request_timestamp]_vars

SavedAtShutdown == tk.pc = "stopped" /\ tk.onDisk = "saved"

\* C24, as claimed: load_from_file of the file save_to_file wrote gives the
\* tracker that was saved: the same keys and for every key the same
\* counters, the same models_used and the same last_request_timestamp.
C24_LoadOfSaveIsIdentity ==
    SavedAtShutdown =>
        /\ LoadFromFile(tk.file).some
        /\ LoadFromFile(tk.file).val = stats

\* C24, amended: load_from_file of the file save_to_file wrote gives the
\* saved tracker's keys and for every key the same counters and the same
\* models_used, and as last_request_timestamp the saved one cut down to
\* whole milliseconds.
C24_LoadOfSaveUpToMillis ==
    SavedAtShutdown =>
        /\ LoadFromFile(tk.file).some
        /\ LET loaded == LoadFromFile(tk.file).val
           IN  /\ DOMAIN loaded = DOMAIN stats
               /\ \A k \in DOMAIN stats :
                     /\ \A f \in CounterFields :
                           CounterOf(loaded[k], f) = CounterOf(stats[k], f)
                     /\ loaded[k].models_used = stats[k].models_used
                     /\ loaded[k].last_request_timestamp % UnitsPerMs = 0
                     /\ loaded[k].last_request_timestamp
                           <= stats[k].last_request_timestamp
                     /\ stats[k].last_request_timestamp
                           - loaded[k].last_request_timestamp < UnitsPerMs

\* A tracker was saved that has one key last touched a whole millisecond
\* after the epoch and another last touched between two milliseconds.
C24_Witness ==
    /\ SavedAtShutdown
    /\ DOMAIN stats = TkKeys
    /\ \E k \in TkKeys : stats[k].last_request_timestamp = UnitsPerMs
    /\ \E k \in TkKeys : stats[k].last_request_timestamp % UnitsPerMs # 0
    /\ \E k \in TkKeys : stats[k].models_used # << >>

\* Two trackers hold the same keys, counters and models_used counts.
SameCounts(a, b) ==
    /\ DOMAIN a = DOMAIN b
    /\ \A k \in DOMAIN a :
          /\ \A f \in CounterFields : CounterOf(a[k], f) = CounterOf(b[k], f)
          /\ a[k].models_used = b[k].models_used

C26_TotalIsSum ==
    (ad.pc = "done" /\ ad.out.result.ok) =>
        /\ ad.out.usage.some
        /\ ad.out.usage.val.total_tokens
              = ad.out.usage.val.prompt_tokens + ad.out.usage.val.completion_tokens
        /\ ad.adapter = "ollama" =>
              /\ ad.out.usage.val.prompt_tokens = ad.prompt_eval_count
              /\ ad.out.usage.val.completion_tokens = ad.eval_count

\* The tokens a bucket b holds once refilled at the instant t: those it held
\* plus the time since its last_updated times its rate, at most its capacity.
RefilledAt(b, t) ==
    LET grown == b.tokens + (IF t > b.last_updated
                             THEN (t - b.last_updated) * b.refill_rate ELSE 0)
    IN  IF grown > b.capacity THEN b.capacity ELSE grown

\* C27: every try_consume first refills the bucket to min(capacity, tokens +
\* elapsed * rate) and sets last_updated to now, whether or not it admits;
\* it admits exactly when the refilled tokens are at least one token;
\* admitting it takes exactly one token, denying it takes none; capacity
\* and rate stay.
C27_TryConsume ==
    \A i \in 1..Len(attempts) :
        LET a == attempts[i]
            refilled == RefilledAt(a.before, a.t)
        IN  /\ a.ok <=> refilled >= OneToken
            /\ a.ok => a.after.tokens = refilled - OneToken
            /\ ~a.ok => a.after.tokens = refilled
            /\ a.after.last_updated = a.t
            /\ a.after.capacity = a.before.capacity
            /\ a.after.refill_rate = a.before.refill_rate

\* One try_consume found exactly one token after the refill and admitted,
\* and a later one found tokens, but less than one, and denied.
C27_Witness ==
    \E i, j \in 1..Len(attempts) :
        /\ i < j
        /\ attempts[i].ok
        /\ attempts[i].before.last_updated < attempts[i].t
        /\ RefilledAt(attempts[i].before, attempts[i].t) = OneToken
        /\ ~attempts[j].ok
        /\ RefilledAt(attempts[j].before, attempts[j].t) > 0
        /\ attempts[j].after.last_updated > attempts[j].before.last_updated

\* The attempts made on key k, in the order they were made
AttemptsOn(k) == {i \in 1..Len(attempts) : attempts[i].key = k}

\* C28: whatever way check_key calls for a key without a bucket interleave,
\* one bucket is created for the key, by the first of them to consume, and
\* never replaced; every call consumes from it, each finding the bucket as
\* the call before left it, so that no consumed token comes back; and of the
\* calls made at the instant the bucket is created no more are admitted
\* than its capacity holds tokens.
C28_OneBucketPerKey ==
    \A k \in LimiterKeys :
        /\ \A i \in AttemptsOn(k) :
              /\ attempts[i].inserted <=> (\A j \in AttemptsOn(k) : i <= j)
              /\ attempts[i].inserted =>
                    attempts[i].before =
                        BucketNew(limiter.default_capacity,
                                  limiter.default_refill_rate, attempts[i].t)
              /\ \A j \in AttemptsOn(k) :
                    (i < j /\ \A m \in AttemptsOn(k) : ~(i < m /\ m < j)) =>
                        attempts[j].before = attempts[i].after
              /\ (\A j \in AttemptsOn(k) : j <= i) =>
                    (k \in DOMAIN buckets /\ buckets[k] = attempts[i].after)
        /\ (k \in DOMAIN buckets) <=> (AttemptsOn(k) # {})
        /\ \A i \in AttemptsOn(k) :
              attempts[i].inserted =>
                  Cardinality({j \in AttemptsOn(k) :
                                  attempts[j].t = attempts[i].t /\ attempts[j].ok})
                      * OneToken <= limiter.default_capacity

\* Two threads missed the key on the fast path and both went through the
\* slow path: the first created the bucket, the second found it, and a third
\* call at the same instant was denied because the two had emptied it.
C28_Witness ==
    /\ Len(attempts) >= 3
    /\ \A i \in 1..3 : attempts[i].key = attempts[1].key /\ attempts[i].t = attempts[1].t
    /\ attempts[1].path = "slow" /\ attempts[1].inserted /\ attempts[1].ok
    /\ attempts[2].path = "slow" /\ ~attempts[2].inserted /\ attempts[2].ok
    /\ attempts[2].before = attempts[1].after
    /\ ~attempts[3].ok

\* The locks a thread holds
HoldsMap(th) == th \in lk.readers \/ lk.writer = th
HoldsBucket(th) == \E k \in DOMAIN lk.mutex : lk.mutex[k] = th

\* The lock operations of a whole call, on a hit of the fast path and on a
\* miss: the map lock is taken first and released last, the bucket lock is
\* taken and released in between.
HitTrace == <<"map.read", "bucket.lock", "bucket.unlock", "map.unread">>
MissTrace ==
    <<"map.read", "map.unread", "map.write", "bucket.lock", "bucket.unlock",
      "map.unwrite">>

\* Whether a thread inside check_key can take its next step
CanStep(th) ==
    CASE lk.th[th].pc = "read" ->
              /\ lk.writer = 0
              /\ lk.policy = "writers first" => LkWaiting = {}
      [] lk.th[th].pc = "write" -> lk.writer = 0 /\ lk.readers = {}
      [] lk.th[th].pc \in {"lock", "lockSlow"} -> lk.mutex[lk.th[th].key] = 0
      [] OTHER -> lk.th[th].pc # "idle"

\* Lock order: a thread holding a bucket lock holds the map lock, and the
\* lock operations of its call so far are a prefix of one of the two orders.
LockOrder ==
    \A th \in LkThreads :
        /\ HoldsBucket(th) => HoldsMap(th)
        /\ IsPrefix(lk.th[th].trace, HitTrace) \/ IsPrefix(lk.th[th].trace, MissTrace)
        /\ lk.th[th].pc = "idle" => ~HoldsMap(th) /\ ~HoldsBucket(th)

\* No deadlock: while a thread is inside check_key, some thread inside can
\* take a step.
NoDeadlock ==
    (\E th \in LkThreads : lk.th[th].pc # "idle") =>
        \E th \in LkThreads : CanStep(th)

\* C29: every path of check_key takes the map lock before a bucket lock,
\* releases the bucket lock before the map lock and never asks for the map
\* lock while holding a bucket lock; no interleaving of calls deadlocks, and
\* every call returns.
C29_LockOrderAndProgress ==
    /\ [](LockOrder /\ NoDeadlock)
    /\ \A th \in LkThreads : (lk.th[th].pc # "idle") ~> (lk.th[th].pc = "idle")

\* One thread holds the write lock and a bucket lock on the slow path while
\* a second waits for the read lock and a third, having missed the same key,
\* waits for the write lock, under the policy that lets writers go first.
C29_Witness ==
    \E a, b, c \in LkThreads :
        /\ lk.policy = "writers first"
        /\ lk.writer = a /\ lk.th[a].pc = "unlockSlow"
        /\ lk.th[b].pc = "read"
        /\ lk.th[c].pc = "write" /\ lk.th[c].key = lk.th[a].key

\* A request that entered Tracking, was answered by the handler with a
\* response, and has left the pipeline.
TrackedDone(req) ==
    /\ req.pc = "done"
    /\ Occurs(req.trace, "Tracking")
    /\ Occurs(req.trace, "Handler")
    /\ req.result.val.kind = "ok"

\* C30: for a request that reached Tracking and whose handler answered with
\* status s, record_request was made exactly once, after the handler, under
\* the caller's key ('unknown' without one) and with is_error = (s >= 500):
\* the key's request_count is one more than when the request arrived, its
\* error_count one more if s >= 500 and the same if not, and the other keys
\* are as they were.
C30_OneRecordPerRequest ==
    \A s \in Slots :
        LET req == reqs[s]
            key == IF req.ext.some THEN req.ext.val.key ELSE "unknown"
            n == Len(req.trace)
        IN  TrackedDone(req) =>
              /\ Cardinality({i \in 1..n : req.trace[i] = "record"}) = 1
              /\ req.trace[n] = "record" /\ req.trace[n - 1] = "Handler"
              /\ key \in DOMAIN stats
              /\ stats[key].request_count
                    = KeyStatsIn(req.stats0, key).request_count + 1
              /\ stats[key].error_count
                    = KeyStatsIn(req.stats0, key).error_count
                         + (IF req.result.val.status >= 500 THEN 1 ELSE 0)
              /\ \A k \in DOMAIN stats \ {key} :
                    k \in DOMAIN req.stats0 /\ stats[k] = req.stats0[k]

\* A key's second request was answered 500 by the handler after its first
\* was answered 200: two requests and one error are counted.
C30_Witness ==
    \E s \in Slots :
        /\ TrackedDone(reqs[s])
        /\ reqs[s].result.val.status = 500
        /\ reqs[s].ext.val.key \in DOMAIN reqs[s].stats0
        /\ stats[reqs[s].ext.val.key].request_count = 2
        /\ stats[reqs[s].ext.val.key].error_count = 1

\* ------------------------------------------------------------ C31..C34
\* The number of record_tokens calls models_used counts in all
RECURSIVE SumOver(_, _)
SumOver(f, S) ==
    IF S = {} THEN 0
    ELSE LET x == CHOOSE y \in S : TRUE
         IN  f[x] + SumOver(f, S \ {x})

\* C31: tracker updates made concurrently are never lost and never seen
\* half made: whenever no thread holds the tracker's write lock, the key's
\* request_count, error_count and total_latency_ms are what the completed
\* record_request calls add up to, its token totals the sums of what the
\* completed record_tokens calls were given and its models_used counts in
\* total the number of those calls; and every answer a /stats reader built
\* is the answer of a tracker as some completed call left it.
C31_NoLostOrTornUpdate ==
    /\ sh.writer = 0 =>
          LET ks == KeyStatsIn(stats, ShKey)
          IN  /\ ks.request_count = sh.done.requests
              /\ ks.error_count = sh.done.errors
              /\ ks.total_latency_ms = sh.done.latency_ms
              /\ ks.total_prompt_tokens = sh.done.prompt_tokens
              /\ ks.total_completion_tokens = sh.done.completion_tokens
              /\ SumOver(ks.models_used, DOMAIN ks.models_used) = sh.done.tokenCalls
              /\ DOMAIN stats \subseteq {ShKey}
    /\ \A th \in LkThreads : sh.th[th].seen = sh.th[th].unbroken

\* Three threads have made a record_request, a record_tokens and a GET
\* /stats at once and all have returned; the reader was served between the
\* two updates: it saw the request counted and no tokens yet.
C31_Witness ==
    /\ sh.calls = 3
    /\ \A th \in LkThreads : sh.th[th].pc = "idle"
    /\ sh.done.requests = 1 /\ sh.done.tokenCalls = 1
    /\ stats[ShKey].request_count = 1 /\ stats[ShKey].total_prompt_tokens = 3
    /\ \E th \in LkThreads :
          /\ sh.th[th].seen.some
          /\ sh.th[th].seen.val.json[1].request_count = 1
          /\ sh.th[th].seen.val.json[1].total_prompt_tokens = 0

\* The keys of GATEWAY_API_KEYS and ADMIN_API_KEYS
ConfiguredKeys ==
    {api_keys[i] : i \in 1..Len(api_keys)}
        \cup {admin_keys[i] : i \in 1..Len(admin_keys)}

\* A request Auth has answered 401
RejectedByAuth(req) ==
    /\ req.pc = "done"
    /\ req.result.val = Response("err", 401, "Invalid or missing API key", << >>)

\* C32: a request Auth rejects with 401 changes no shared state.  Such a
\* request entered Auth only, got no ValidatedApiKey, and the tracker is as
\* it was when it arrived; every step that changes the bucket map or the
\* tracker is a step of a request that carries a ValidatedApiKey of a
\* configured key; so the keys of the bucket map and of the tracker are
\* configured keys in every reachable state.
C32_RejectedChangesNothing ==
    /\ [](DOMAIN buckets \cup DOMAIN stats \subseteq ConfiguredKeys)
    /\ [](\A s \in Slots :
            RejectedByAuth(reqs[s]) =>
                /\ reqs[s].trace = <<"Auth">>
                /\ ~reqs[s].ext.some /\ ~reqs[s].checked.some
                /\ stats = reqs[s].stats0)
    /\ [][(buckets' # buckets \/ stats' # stats) =>
            \E s \in Slots :
                /\ reqs'[s] # reqs[s]
                /\ reqs[s].ext.some
                /\ reqs[s].ext.val.key \in ConfiguredKeys
                /\ DOMAIN buckets' \subseteq DOMAIN buckets \cup {reqs[s].ext.val.key}
                /\ DOMAIN stats' \subseteq DOMAIN stats \cup {reqs[s].ext.val.key}]_vars

\* After k1's request was served, a request with the unknown token zz was
\* answered 401: the bucket map and the tracker still hold k1 alone.
C32_Witness ==
    \E s \in Slots :
        /\ RejectedByAuth(reqs[s])
        /\ reqs[s].header = TextHeader("Bearer zz")
        /\ arrived = 2
        /\ DOMAIN buckets = {"k1"} /\ DOMAIN stats = {"k1"}

\* The attempts on attempt i's key made before it
EarlierOn(i) == {j \in AttemptsOn(attempts[i].key) : j < i}

\* C33: rate limiting is isolated per key.  A check_key(k) step changes k's
\* bucket and leaves every other key's bucket, its tokens and last_updated,
\* as it was; the bucket a try_consume on k starts from is k's own, as k's
\* previous attempt left it or new, and its answer is the one that bucket
\* gives; so a key is denied only after at least capacity of its own
\* requests were admitted, whatever the other keys have used.
C33_PerKeyIsolation ==
    /\ [](\A i \in 1..Len(attempts) :
            LET a == attempts[i]
                earlier == EarlierOn(i)
            IN  /\ a.before =
                      IF earlier = {}
                      THEN BucketNew(limiter.default_capacity,
                                     limiter.default_refill_rate, a.t)
                      ELSE attempts[CHOOSE j \in earlier :
                                        \A l \in earlier : l <= j].after
                /\ a.ok <=> RefilledAt(a.before, a.t) >= OneToken
                /\ ~a.ok =>
                      Cardinality({j \in earlier : attempts[j].ok}) * OneToken
                          >= limiter.default_capacity)
    /\ [][buckets' # buckets =>
            \E th \in Threads :
                /\ ck'[th] # ck[th]
                /\ DOMAIN buckets' = DOMAIN buckets \cup {ck[th].key}
                /\ \A k \in DOMAIN buckets \ {ck[th].key} :
                      buckets'[k] = buckets[k]]_vars

\* k1 used its bucket up and was denied; at the same instant a1's first
\* request was admitted from a full bucket, and k1's bucket is as its denied
\* attempt left it.
C33_Witness ==
    \E i, j \in 1..Len(attempts) :
        /\ i < j
        /\ attempts[i].key = "k1" /\ ~attempts[i].ok
        /\ attempts[j].key = "a1" /\ attempts[j].ok
        /\ attempts[j].t = attempts[i].t
        /\ attempts[j].before.tokens = limiter.default_capacity
        /\ buckets["k1"] = attempts[i].after

\* A streaming chat request that entered Tracking, was answered by the
\* handler and has left the pipeline
StreamingDone(req) ==
    TrackedDone(req) /\ UnwrapOr(req.body.stream, FALSE)

\* The body the server is sending, or has sent, answers the connection's
\* last request.
BodyOf(req) == bd.req = arrived /\ req.pc = "done"

\* C34: a streaming chat request is recorded exactly once, when the handler
\* has returned the response and before any of its body is sent.  No body
\* is sent for a request Tracking has not yet recorded; sending the body,
\* and the upstream failing while it is sent, changes nothing in the
\* tracker; so once the upstream has answered the POST the request counts
\* as one request and no error, also when its stream later breaks.
C34_StreamRecordedOnceUpFront ==
    /\ [](\A s \in Slots :
            LET req == reqs[s]
                key == req.tkey
                n == Len(req.trace)
            IN  /\ bd.req = arrived /\ arrived > 0 =>
                      /\ req.pc = "done"
                      /\ req.trace[n] = "record"
                      /\ stats = bd.atSend
                /\ StreamingDone(req) =>
                      /\ Cardinality({i \in 1..n : req.trace[i] = "record"}) = 1
                      /\ req.trace[n] = "record" /\ req.trace[n - 1] = "Handler"
                      /\ stats[key].request_count
                            = KeyStatsIn(req.stats0, key).request_count + 1
                /\ StreamingDone(req) /\ req.answer.sent =>
                      /\ req.result.val.status = 200
                      /\ stats[key].error_count
                            = KeyStatsIn(req.stats0, key).error_count)
    /\ [][bd' # bd => stats' = stats]_vars

\* A streaming request's upstream gave one read and then failed: the body
\* sent is one chunk and [DONE], and the key counts one request, no error.
C34_Witness ==
    \E s \in Slots :
        /\ StreamingDone(reqs[s]) /\ BodyOf(reqs[s])
        /\ bd.pc = "sent" /\ bd.failed
        /\ Len(bd.out) = 2
        /\ stats[reqs[s].tkey].request_count = 1
        /\ stats[reqs[s].tkey].error_count = 0

====
